---- MODULE Spec2Model ----
(***************************************************************************)
(* Entity resolution, merge and ingestion-run protocol of the funding      *)
(* harvester (src/src/storage.py, src/src/deduplication.py,                 *)
(* src/src/pipeline.py).                                                    *)
(*                                                                         *)
(* Text values are sequences of one-character strings, so that the name    *)
(* normaliser and the similarity scorer are computed the way the code       *)
(* computes them.  Scores are exact rationals <<numerator, denominator>>.   *)
(***************************************************************************)
EXTENDS Integers, Sequences, FiniteSets, TLC

(***************************************************************************)
(* Characters and strings                                                   *)
(***************************************************************************)
UPPER ==
    <<"A","B","C","D","E","F","G","H","I","J","K","L","M","N","O","P","Q","R","S","T","U","V","W","X","Y","Z">>
LOWER ==
    <<"a","b","c","d","e","f","g","h","i","j","k","l","m","n","o","p","q","r","s","t","u","v","w","x","y","z">>
DIGITS ==
    { "0","1","2","3","4","5","6","7","8","9" }

\* Python's None where a text value is expected
None == <<"None">>

IsLetter(c) == \E i \in 1..26 : c = UPPER[i] \/ c = LOWER[i]
IsAlnum(c) == IsLetter(c) \/ c \in DIGITS
\* regex \w and \s over the ASCII characters used here
IsWordChar(c) == IsAlnum(c) \/ c = "_"
IsSpace(c) == c = " "

lower_char(c) ==
    IF \E i \in 1..26 : UPPER[i] = c
      THEN LOWER[CHOOSE i \in 1..26 : UPPER[i] = c]
      ELSE c
upper_char(c) ==
    IF \E i \in 1..26 : LOWER[i] = c
      THEN UPPER[CHOOSE i \in 1..26 : LOWER[i] = c]
      ELSE c
\* str.lower(), str.upper()
str_lower(s) == [i \in 1..Len(s) |-> lower_char(s[i])]
str_upper(s) == [i \in 1..Len(s) |-> upper_char(s[i])]

\* str.split(): the maximal runs of non-space characters
RECURSIVE str_split(_)
str_split(s) ==
    IF s = <<>> THEN <<>>
    ELSE IF IsSpace(Head(s)) THEN str_split(Tail(s))
    ELSE LET k == CHOOSE n \in 1..Len(s) :
                    /\ \A m \in 1..n : ~IsSpace(s[m])
                    /\ (n = Len(s) \/ IsSpace(s[n + 1]))
         IN  <<SubSeq(s, 1, k)>> \o str_split(SubSeq(s, k + 1, Len(s)))

\* ' '.join(words)
RECURSIVE str_join(_)
str_join(ws) ==
    IF ws = <<>> THEN <<>>
    ELSE IF Len(ws) = 1 THEN ws[1]
    ELSE ws[1] \o <<" ">> \o str_join(Tail(ws))

\* ''.join(words)
RECURSIVE str_concat(_)
str_concat(ws) == IF ws = <<>> THEN <<>> ELSE ws[1] \o str_concat(Tail(ws))

(***************************************************************************)
(* Rational arithmetic for the scores                                       *)
(***************************************************************************)
Rat(n, d) == <<n, d>>
RLe(a, b) == a[1] * b[2] <= b[1] * a[2]
RLt(a, b) == a[1] * b[2] < b[1] * a[2]
RAdd(a, b) == <<a[1] * b[2] + b[1] * a[2], a[2] * b[2]>>
RMul(a, b) == <<a[1] * b[1], a[2] * b[2]>>
RMin(a, b) == IF RLe(a, b) THEN a ELSE b

(***************************************************************************)
(* DeduplicationEngine: name normalisation and similarity                   *)
(***************************************************************************)
common_words ==
    { <<"t","h","e">>, <<"a","n","d">>, <<"o","r">>, <<"b","u","t">>, <<"i","n">>, 
      <<"o","n">>, <<"a","t">>, <<"t","o">>, <<"f","o","r">>, <<"o","f">>, 
      <<"w","i","t","h">>, <<"b","y">>, <<"a">>, <<"a","n">>, <<"a","s">>, <<"i","f">>, 
      <<"i","t">>, <<"i","s">>, <<"w","a","s">>, <<"b","e">>, <<"b","e","e","n">>, 
      <<"b","e","i","n","g">>, <<"h","a","v","e">>, <<"h","a","s">>, <<"h","a","d">>, 
      <<"d","o">>, <<"d","o","e","s">>, <<"d","i","d">>, <<"w","i","l","l">>, 
      <<"w","o","u","l","d">>, <<"c","o","u","l","d">>, <<"s","h","o","u","l","d">>, 
      <<"m","a","y">>, <<"m","i","g","h","t">>, <<"m","u","s","t">>, <<"c","a","n">>, 
      <<"c","o","r","p">>, <<"c","o","r","p","o","r","a","t","i","o","n">>, <<"i","n","c">>, 
      <<"i","n","c","o","r","p","o","r","a","t","e","d">>, <<"l","l","c">>, <<"l","t","d">>, 
      <<"l","i","m","i","t","e","d">>, <<"c","o">>, <<"c","o","m","p","a","n","y">>, 
      <<"g","r","o","u","p">>, <<"h","o","l","d","i","n","g","s">>, 
      <<"e","n","t","e","r","p","r","i","s","e","s">>, 
      <<"s","o","l","u","t","i","o","n","s">>, <<"s","y","s","t","e","m","s">>, 
      <<"t","e","c","h","n","o","l","o","g","i","e","s">>, 
      <<"i","n","t","e","r","n","a","t","i","o","n","a","l">>, <<"g","l","o","b","a","l">>, 
      <<"u","s","a">>, <<"u","s">>, <<"a","m","e","r","i","c","a">> }

suffixes ==
    { <<"c","o","r","p">>, <<"c","o","r","p","o","r","a","t","i","o","n">>, 
      <<"i","n","c","o","r","p","o","r","a","t","e","d">>, <<"i","n","c">>, <<"l","l","c">>, 
      <<"l","i","m","i","t","e","d">>, <<"l","t","d">>, <<"c","o">>, 
      <<"c","o","m","p","a","n","y">> }

\* _normalize_company_name
normalize_company_name(name) ==
    IF name = <<>> THEN <<>>
    ELSE LET lowered == str_lower(name)
             \* re.sub(r'[^\w\s]', ' ', normalized)
             nopunct == [i \in 1..Len(lowered) |->
                            IF IsWordChar(lowered[i]) \/ IsSpace(lowered[i])
                              THEN lowered[i] ELSE " "]
             \* ' '.join(normalized.split())
             tokens == str_split(nopunct)
             \* re.sub(r'\b<suffix>\.?\b', '', normalized) for each suffix: with
             \* only word characters and single spaces left, a match is a token
             nosuffix == SelectSeq(tokens, LAMBDA w : w \notin suffixes)
             words == SelectSeq(nosuffix, LAMBDA w : w \notin common_words)
         IN  str_join(words)

\* _normalized_domain
normalized_domain(company_name) ==
    IF company_name = <<>> THEN None
    ELSE LET normalized == SelectSeq(str_lower(company_name), IsAlnum)
         IN  IF Len(normalized) > 3 THEN normalized ELSE None

\* get_acronym (local function of _is_acronym_match)
get_acronym(name) ==
    LET words == str_split(name)
    IN  IF Len(words) <= 1 THEN <<>>
        ELSE str_upper([i \in 1..Len(words) |-> words[i][1]])

\* name.replace(' ', '').upper()
squeeze_upper(name) == str_upper(SelectSeq(name, LAMBDA c : c # " "))

\* _is_acronym_match
is_acronym_match(name1, name2) ==
    LET acronym1 == get_acronym(name1)
        acronym2 == get_acronym(name2)
    IN  IF Len(acronym1) >= 3 /\ acronym1 = acronym2 THEN TRUE
        ELSE \/ (acronym1 # <<>> /\ acronym1 = squeeze_upper(name2))
             \/ (acronym2 # <<>> /\ acronym2 = squeeze_upper(name1))

(***************************************************************************)
(* difflib.SequenceMatcher(None, a, b).ratio() (no junk; autojunk acts only *)
(* from 200 characters on).  Indices are Python's: 0-based, half-open.      *)
(***************************************************************************)
RECURSIVE common_prefix(_, _, _, _, _, _)
common_prefix(a, b, i, j, ahi, bhi) ==
    IF i < ahi /\ j < bhi /\ a[i + 1] = b[j + 1]
      THEN 1 + common_prefix(a, b, i + 1, j + 1, ahi, bhi)
      ELSE 0

SetMax(S) == CHOOSE x \in S : \A y \in S : y <= x
SetMin(S) == CHOOSE x \in S : \A y \in S : x <= y

\* find_longest_match: the longest block, earliest in a, then earliest in b
find_longest_match(a, b, alo, ahi, blo, bhi) ==
    LET I == alo..(ahi - 1)
        J == blo..(bhi - 1)
        k == SetMax({0} \cup {common_prefix(a, b, i, j, ahi, bhi) : i \in I, j \in J})
    IN  IF k = 0 THEN <<alo, blo, 0>>
        ELSE LET i == SetMin({x \in I : \E y \in J : common_prefix(a, b, x, y, ahi, bhi) = k})
                 j == SetMin({y \in J : common_prefix(a, b, i, y, ahi, bhi) = k})
             IN  <<i, j, k>>

\* the summed sizes of get_matching_blocks
RECURSIVE matching_chars(_, _, _, _, _, _)
matching_chars(a, b, alo, ahi, blo, bhi) ==
    LET m == find_longest_match(a, b, alo, ahi, blo, bhi)
        i == m[1]
        j == m[2]
        k == m[3]
    IN  IF k = 0 THEN 0
        ELSE k + (IF alo < i /\ blo < j
                    THEN matching_chars(a, b, alo, i, blo, j) ELSE 0)
               + (IF i + k < ahi /\ j + k < bhi
                    THEN matching_chars(a, b, i + k, ahi, j + k, bhi) ELSE 0)

\* ratio(): 2.0 * matches / (len(a) + len(b)), 1.0 for two empty strings
ratio(a, b) ==
    IF Len(a) + Len(b) = 0 THEN Rat(1, 1)
    ELSE Rat(2 * matching_chars(a, b, 0, Len(a), 0, Len(b)), Len(a) + Len(b))

\* a variant without the test for equal normalized names
calculate_name_similarity_unequal(name1, name2) ==
    IF name1 \in {<<>>, None} \/ name2 \in {<<>>, None} THEN Rat(0, 1)
    ELSE RMul(ratio(normalize_company_name(name1), normalize_company_name(name2)),
              IF \/ Len(normalize_company_name(name1)) <= 3
                 \/ Len(normalize_company_name(name2)) <= 3
                THEN Rat(7, 10) ELSE Rat(1, 1))
\* _calculate_name_similarity
calculate_name_similarity(name1, name2) ==
    IF name1 \in {<<>>, None} \/ name2 \in {<<>>, None} THEN Rat(0, 1)
    ELSE LET norm1 == normalize_company_name(name1)
             norm2 == normalize_company_name(name2)
         IN  IF norm1 = norm2 THEN Rat(1, 1)
             ELSE LET base == ratio(norm1, norm2)
                      boosted == IF is_acronym_match(norm1, norm2)
                                   THEN RMin(Rat(1, 1), RAdd(base, Rat(3, 10)))
                                   ELSE base
                      penalised == IF Len(norm1) <= 3 \/ Len(norm2) <= 3
                                     THEN RMul(boosted, Rat(7, 10))
                                     ELSE boosted
                  IN  RMin(Rat(1, 1), penalised)

(***************************************************************************)
(* schema.py: normalize_text, normalize_date, canonical_event.  A text is a *)
(* sequence of characters; the texts are over letters, digits, the space    *)
(* and the characters $ , . - + / : (no exponent, inf or nan forms).        *)
(***************************************************************************)
DigitChars == <<"0","1","2","3","4","5","6","7","8","9">>
digit_value(c) == (CHOOSE n \in 1..10 : DigitChars[n] = c) - 1

\* int(text) of a text of digits
RECURSIVE to_int(_)
to_int(ds) ==
    IF ds = <<>> THEN 0
    ELSE 10 * to_int(SubSeq(ds, 1, Len(ds) - 1)) + digit_value(ds[Len(ds)])

\* str(n) of a natural number
RECURSIVE int_to_str(_)
int_to_str(n) ==
    IF n < 10 THEN <<DigitChars[n + 1]>>
    ELSE int_to_str(n \div 10) \o <<DigitChars[(n % 10) + 1]>>

RECURSIVE pow10(_)
pow10(k) == IF k = 0 THEN 1 ELSE 10 * pow10(k - 1)

\* str.strip()
str_strip(s) ==
    IF \A i \in 1..Len(s) : IsSpace(s[i]) THEN <<>>
    ELSE SubSeq(s, SetMin({i \in 1..Len(s) : ~IsSpace(s[i])}),
                   SetMax({i \in 1..Len(s) : ~IsSpace(s[i])}))

\* schema.py:7-13
normalize_text(value) ==
    IF value = None THEN None
    ELSE IF str_strip(value) = <<>> THEN None
    ELSE str_strip(value)

\* float(text): an optional sign, digits with at most one point and at least
\* one digit, spaces around it ignored; any other text raises ValueError.
\* The value is a rational, the sign kept apart
float_body(text) ==
    IF str_strip(text) # <<>> /\ Head(str_strip(text)) \in {"-", "+"}
      THEN Tail(str_strip(text)) ELSE str_strip(text)
float_negative(text) == str_strip(text) # <<>> /\ Head(str_strip(text)) = "-"
is_float_text(text) ==
    /\ \A i \in 1..Len(float_body(text)) : float_body(text)[i] \in DIGITS \cup {"."}
    /\ Cardinality({i \in 1..Len(float_body(text)) : float_body(text)[i] = "."}) <= 1
    /\ \E i \in 1..Len(float_body(text)) : float_body(text)[i] \in DIGITS
float_value(text) ==
    [negative |-> float_negative(text),
     value |-> Rat(to_int(SelectSeq(float_body(text), LAMBDA c : c \in DIGITS)),
                   IF \E i \in 1..Len(float_body(text)) : float_body(text)[i] = "."
                     THEN pow10(Len(float_body(text)) -
                                (CHOOSE i \in 1..Len(float_body(text)) :
                                    float_body(text)[i] = "."))
                     ELSE 1)]

\* an amount as it is handed to canonical_event: None, a number or a text
NoAmount == [kind |-> "None"]
Number(n) == [kind |-> "float", negative |-> FALSE, value |-> Rat(n, 1)]
Text(text) == [kind |-> "str", text |-> text]

\* schema.py:54: float(funding_amount) if funding_amount is not None else None
py_float(amount) ==
    IF amount.kind = "None" THEN [raises |-> FALSE, value |-> NoAmount]
    ELSE IF amount.kind = "float" THEN [raises |-> FALSE, value |-> amount]
    ELSE IF is_float_text(amount.text)
      THEN [raises |-> FALSE,
            value |-> [kind |-> "float",
                       negative |-> float_value(amount.text).negative,
                       value |-> float_value(amount.text).value]]
    ELSE [raises |-> TRUE, value |-> NoAmount]

\* datetime.strptime: the directives and the texts their patterns match
Directives == {"Y", "m", "d", "H", "M", "S"}
two_digits_ok(directive, a, b) ==
    CASE directive = "m" -> (a = 1 /\ b <= 2) \/ (a = 0 /\ b >= 1)
      [] directive = "d" -> (a = 3 /\ b <= 1) \/ a \in {1, 2} \/ (a = 0 /\ b >= 1)
      [] directive = "H" -> (a = 2 /\ b <= 3) \/ a <= 1
      [] directive = "M" -> a <= 5
      [] directive = "S" -> (a = 6 /\ b <= 1) \/ a <= 5
      [] OTHER -> FALSE
one_digit_ok(directive, a) ==
    IF directive \in {"m", "d"} THEN a >= 1 ELSE directive \in {"H", "M", "S"}

\* the number of characters of t at pos that the directive's pattern takes,
\* 0 if it does not match
field_len(t, pos, directive) ==
    IF directive = "Y"
      THEN IF pos + 3 <= Len(t) /\ \A i \in pos..(pos + 3) : t[i] \in DIGITS
             THEN 4 ELSE 0
    ELSE IF /\ pos + 1 <= Len(t)
            /\ t[pos] \in DIGITS
            /\ t[pos + 1] \in DIGITS
            /\ two_digits_ok(directive, digit_value(t[pos]), digit_value(t[pos + 1]))
      THEN 2
    ELSE IF pos <= Len(t) /\ t[pos] \in DIGITS
            /\ one_digit_ok(directive, digit_value(t[pos]))
      THEN 1
    ELSE IF /\ directive = "d"
            /\ pos + 1 <= Len(t)
            /\ t[pos] = " "
            /\ t[pos + 1] \in DIGITS
            /\ digit_value(t[pos + 1]) >= 1
      THEN 2
    ELSE 0

\* the number of spaces of t from pos on
RECURSIVE spaces_at(_, _)
spaces_at(t, pos) ==
    IF pos <= Len(t) /\ IsSpace(t[pos]) THEN 1 + spaces_at(t, pos + 1) ELSE 0

NoMatch == [ok |-> FALSE, Y |-> 0, m |-> 0, d |-> 0, H |-> 0, M |-> 0, S |-> 0]
Matched == [ok |-> TRUE, Y |-> 1900, m |-> 1, d |-> 1, H |-> 0, M |-> 0, S |-> 0]

\* the match of the format's tokens from k on against t from pos on: a
\* directive takes its field, a space of the format takes one or more
\* spaces, any other character takes itself, whatever its case; the whole
\* text has to be taken
RECURSIVE strptime_from(_, _, _, _, _)
strptime_take(t, format, pos, k, got, n) ==
    IF n = 0 THEN NoMatch
    ELSE strptime_from(t, format, pos + n, k + 1,
             IF format[k] \in Directives
               THEN [got EXCEPT ![format[k]] =
                        to_int(SelectSeq(SubSeq(t, pos, pos + n - 1),
                                         LAMBDA c : c \in DIGITS))]
               ELSE got)
strptime_from(t, format, pos, k, got) ==
    IF k > Len(format) THEN (IF pos = Len(t) + 1 THEN got ELSE NoMatch)
    ELSE strptime_take(t, format, pos, k, got,
             IF format[k] \in Directives THEN field_len(t, pos, format[k])
             ELSE IF format[k] = " " THEN spaces_at(t, pos)
             ELSE IF pos <= Len(t) /\ lower_char(t[pos]) = lower_char(format[k])
               THEN 1
             ELSE 0)

is_leap(year) == (year % 4 = 0 /\ year % 100 # 0) \/ year % 400 = 0
days_in_month(year, month) ==
    IF month = 2 THEN (IF is_leap(year) THEN 29 ELSE 28)
    ELSE IF month \in {4, 6, 9, 11} THEN 30 ELSE 31

\* the datetime that strptime builds exists
valid_datetime(got) ==
    /\ got.ok
    /\ got.Y >= 1
    /\ got.d <= days_in_month(got.Y, got.m)
    /\ got.S <= 59

\* datetime.strptime(t, format) returns a datetime
strptime_ok(t, format) == valid_datetime(strptime_from(t, format, 1, 1, Matched))

\* strftime("%Y-%m-%d") of the C library: the year is not padded
two_digits(n) == IF n < 10 THEN <<"0">> \o int_to_str(n) ELSE int_to_str(n)
strftime(got) ==
    int_to_str(got.Y) \o <<"-">> \o two_digits(got.m) \o <<"-">> \o two_digits(got.d)

\* schema.py:29
Formats ==
    << <<"Y","-","m","-","d">>,
       <<"m","/","d","/","Y">>,
       <<"Y","/","m","/","d">>,
       <<"Y","-","m","-","d","T","H",":","M",":","S">>,
       <<"Y","-","m","-","d"," ","H",":","M",":","S">> >>

\* s[:19]
head19(s) == SubSeq(s, 1, IF Len(s) < 19 THEN Len(s) ELSE 19)

\* t matches one of the formats; the first format that t matches
recognized(t) == \E f \in 1..Len(Formats) : strptime_ok(t, Formats[f])
first_format(t) ==
    Formats[CHOOSE f \in 1..Len(Formats) :
               /\ strptime_ok(t, Formats[f])
               /\ \A g \in 1..(f - 1) : ~strptime_ok(t, Formats[g])]

\* schema.py:25-37 for the stripped text s
normalize_date_text(s) ==
    IF s = <<>> THEN None
    ELSE IF recognized(head19(s))
      THEN strftime(strptime_from(head19(s), first_format(head19(s)), 1, 1, Matched))
    ELSE IF Len(s) >= 10 /\ s[5] = "-" /\ s[8] = "-" THEN SubSeq(s, 1, 10)
    ELSE None

\* schema.py:16-37, for None and texts
normalize_date(value) ==
    IF value = None THEN None ELSE normalize_date_text(str_strip(value))

\* schema.py:40-61: the event, or the exception of float()
canonical_event(company_name, funding_type, funding_amount, funding_date, country) ==
    [raises |-> py_float(funding_amount).raises,
     company_name |-> IF normalize_text(company_name) = None
                        THEN <<>> ELSE normalize_text(company_name),
     funding_type |-> normalize_text(funding_type),
     funding_amount |-> py_float(funding_amount).value,
     funding_date |-> normalize_date(funding_date),
     country |-> normalize_text(country)]

(***************************************************************************)
(* Bounds of the model and the values observations are drawn from           *)
(***************************************************************************)
MaxCompanies == 2
MaxEvents == 2
MaxDate == 2
MaxMergeIds == 1
MaxRuns == 2
MaxFetched == 3
MaxSessions == 2
MaxStored == 12
MaxPagesSetting == 2
MaxRequests == 6
MaxRecs == 1
MaxRetries == 4
MaxOffset == 3000

\* SQL NULL / Python None in a text column
NULL == "NULL"
\* A date text 'YYYY-MM-DD' is the number of its day, so that < and > on the
\* numbers are the comparisons of the texts; 0 is NULL, which COALESCE(.., '')
\* orders first.  str(None) = 'None' (pipeline.py:36) is greater than every
\* date text, since 'N' > '9'.
NullDate == 0
Dates == 1..MaxDate
NoneText == MaxDate + 1
\* the error text of a failed run: str(e), which may be the empty text
ErrorTexts == {"", "error"}

Acme == <<"A","c","m","e">>
AcmeInc == <<"A","c","m","e"," ","I","n","c">>
Acma == <<"A","c","m","a">>
Names == {Acme, AcmeInc, Acma}
\* a name that resembles none of the others
Zed == <<"Z","e","d">>
ScoredNames == Names \cup {Zed}
\* the names whose pairs are scored: the empty text, None, names that
\* normalize to the empty text or to three characters or fewer, anagrams,
\* and a name with its acronym
Tide == <<"T","i","d","e">>
Diet == <<"D","i","e","t">>
Inc == <<"I","n","c">>
Ab == <<"A","b">>
ABC == <<"A"," ","B"," ","C">>
Abc == <<"A","b","c">>
PairNames == ScoredNames \cup {<<>>, None, Tide, Diet, Inc, Ab, ABC, Abc}
Countries == {NULL, "US"}
Domains == {NULL, "acme.com", "acme.org"}
\* identifier maps a caller may pass: none, or a UEI
IdentifierInputs == {<<>>, <<<<"uei", "U1">>>>}

CompanyIds == 1..(MaxCompanies + 1)

\* the fields canonical_event is called with: names and types that are None,
\* blank or a padded text; amounts that are None, a number, a numeric text,
\* a currency-formatted text and a text that is no number; dates that are
\* None, in one of the formats, or in none
CanonNames == {None, <<" "," ">>, <<" ","A","c","m","e"," ">>}
CanonTypes == {None, <<" ">>}
CanonAmounts ==
    {NoAmount, Number(150000), Text(<<"1","5","0","0","0","0">>), Text(<<"$","1",",","2","5","0",",","0","0","0",".","0","0">>),
     Text(<<"a","b","c">>)}
CanonDates ==
    {None, <<"2","0","2","4","-","0","1","-","1","5">>,
     <<"1","/","5","/","2","0","2","4">>,
     <<"g","a","r","b","a","g","e">>,
     <<"a","b","c","d","-","e","f","-","g","h">>,
     <<"2","0","2","4","-","1","3","-","0","1">>}
NoFields ==
    [company_name |-> None, funding_type |-> None, funding_amount |-> NoAmount,
     funding_date |-> None, country |-> None]
NoCanonical ==
    [raises |-> FALSE, company_name |-> <<>>, funding_type |-> None,
     funding_amount |-> NoAmount, funding_date |-> None, country |-> None]

(***************************************************************************)
(* The store: the companies and funding_events tables (storage.py:34-61).   *)
(* companies maps each live rowid to its row; funding_events rows are never  *)
(* deleted, so the table is a sequence and a row's id is its index.          *)
(* routed_min / routed_max are history fields: the least and greatest        *)
(* seen_date resolved to the row since it was inserted.                      *)
(***************************************************************************)
EmptyStore == [companies |-> <<>>, events |-> <<>>]

\* INTEGER PRIMARY KEY without AUTOINCREMENT: the greatest rowid plus one
next_rowid(companies) ==
    IF DOMAIN companies = {} THEN 1 ELSE SetMax(DOMAIN companies) + 1

\* Python truthiness of an optional text / of a stored date text
truthy(text) == text # NULL /\ text # ""
date_or(stored, seen_date) == IF stored = NullDate THEN seen_date ELSE stored

(***************************************************************************)
(* DeduplicationEngine: candidate finder                                    *)
(***************************************************************************)
SimilarityFloor == Rat(6, 10)
DomainBoost == Rat(2, 10)
BoostCap == Rat(95, 100)
MaxCandidates == 10

\* _get_existing_companies: optional country filter, ORDER BY last_seen DESC;
\* rows with equal last_seen come out in rowid (scan) order
RECURSIVE order_by_last_seen(_, _)
order_by_last_seen(ids, companies) ==
    IF ids = {} THEN <<>>
    ELSE LET x == CHOOSE x \in ids : \A y \in ids :
                      \/ companies[y].last_seen < companies[x].last_seen
                      \/ (companies[y].last_seen = companies[x].last_seen /\ x <= y)
         IN  <<x>> \o order_by_last_seen(ids \ {x}, companies)

get_existing_companies(s, country) ==
    LET ids == IF truthy(country)
                 THEN {i \in DOMAIN s.companies : s.companies[i].country = country}
                 ELSE DOMAIN s.companies
    IN  order_by_last_seen(ids, s.companies)

\* a variant that finds a company for every identifier
query_identifier_matches_found(id_type, value) ==
    <<[company_id |-> 1, name |-> <<>>, country |-> NULL, domain |-> NULL,
       confidence |-> Rat(1, 1), match_type |-> "identifier_exact"]>>
\* _find_by_identifiers / _query_identifier_matches: no identifier is stored
query_identifier_matches(id_type, value) == <<>>
find_by_identifiers(identifiers) ==
    str_concat([i \in 1..Len(identifiers) |->
        IF identifiers[i][1] \in {"uei", "duns", "cik"} /\ truthy(identifiers[i][2])
          THEN query_identifier_matches(identifiers[i][1], identifiers[i][2])
          ELSE <<>>])

\* deduplication.py:111-121: the score of one existing name against the
\* query: its similarity, whether it passes the floor, and the confidence
\* and match type it gets as a candidate
name_match(similarity, same_domain) ==
    [similarity |-> similarity,
     substantial |-> RLe(SimilarityFloor, similarity),
     confidence |-> IF same_domain
                      THEN RMin(BoostCap, RAdd(similarity, DomainBoost))
                      ELSE similarity,
     match_type |-> IF same_domain THEN "name_similarity_domain"
                                   ELSE "name_similarity"]
score_name(company_name, existing_name) ==
    name_match(calculate_name_similarity(company_name, existing_name),
               normalized_domain(company_name) = normalized_domain(existing_name))

\* the scores of the names the model draws from, computed once
ScoreTable == [a \in ScoredNames |-> [b \in ScoredNames |-> score_name(a, b)]]

\* the CompanyMatch of one kept company
company_match(s, company_name, id) ==
    [company_id |-> id,
     name |-> s.companies[id].name,
     country |-> s.companies[id].country,
     domain |-> s.companies[id].domain,
     confidence |-> ScoreTable[company_name][s.companies[id].name].confidence,
     match_type |-> ScoreTable[company_name][s.companies[id].name].match_type]

matches_of(s, company_name, kept) ==
    [k \in 1..Len(kept) |-> company_match(s, company_name, kept[k])]

\* _find_by_name_similarity
find_by_name_similarity(s, company_name, country) ==
    matches_of(s, company_name,
        SelectSeq(get_existing_companies(s, country),
                  LAMBDA i : ScoreTable[company_name][s.companies[i].name].substantial))

\* list.sort(key=confidence, reverse=True): stable
RECURSIVE sort_by_confidence(_)
sort_by_confidence(cands) ==
    IF cands = <<>> THEN <<>>
    ELSE LET i == CHOOSE i \in 1..Len(cands) :
                    /\ \A j \in 1..Len(cands) : RLe(cands[j].confidence, cands[i].confidence)
                    /\ \A j \in 1..(i - 1) : RLt(cands[j].confidence, cands[i].confidence)
         IN  <<cands[i]>> \o
             sort_by_confidence([j \in 1..(Len(cands) - 1) |->
                                    IF j < i THEN cands[j] ELSE cands[j + 1]])

\* a variant that returns the whole list
first_n_all(seq, n) == seq
\* candidates[:n]
first_n(seq, n) == SubSeq(seq, 1, IF Len(seq) < n THEN Len(seq) ELSE n)

\* find_duplicate_candidates
find_duplicate_candidates(s, company_name, country, identifiers) ==
    LET identifier_matches ==
            IF identifiers # <<>> THEN find_by_identifiers(identifiers) ELSE <<>>
    IN  IF identifier_matches # <<>> THEN identifier_matches
        ELSE first_n(sort_by_confidence(
                         find_by_name_similarity(s, company_name, country)),
                     MaxCandidates)

(***************************************************************************)
(* storage.py: upsert_company and its helpers                               *)
(***************************************************************************)
AutoAcceptThreshold == Rat(85, 100)

\* _find_company_by_identifier: a placeholder that finds nothing
find_company_by_identifier(s, id_type, id_value) == NULL

\* storage.py:161-168: the widened date span
new_first_seen(stored, seen_date) ==
    LET first_seen == date_or(stored, seen_date)
    IN  IF seen_date < first_seen THEN seen_date ELSE first_seen
\* a variant that stores the latest date instead of the greatest
new_last_seen_latest(stored, seen_date) == seen_date
new_last_seen(stored, seen_date) ==
    LET last_seen == date_or(stored, seen_date)
    IN  IF seen_date > last_seen THEN seen_date ELSE last_seen

\* a variant that stores the domain of the latest observation
kept_domain_latest(stored, domain) == domain
\* storage.py:171: domain = ifnull(domain, ?)
kept_domain(stored, domain) == IF stored = NULL THEN domain ELSE stored

\* _update_company_metadata: nothing when the row is gone; else one UPDATE
update_company_metadata(s, company_id, name, country, seen_date, domain) ==
    IF company_id \notin DOMAIN s.companies THEN s
    ELSE LET row == s.companies[company_id]
         IN  [s EXCEPT !.companies[company_id] =
                 [name |-> name,
                  country |-> country,
                  domain |-> kept_domain(row.domain, domain),
                  first_seen |-> new_first_seen(row.first_seen, seen_date),
                  last_seen |-> new_last_seen(row.last_seen, seen_date),
                  routed_min |-> IF seen_date < row.routed_min
                                   THEN seen_date ELSE row.routed_min,
                  routed_max |-> IF seen_date > row.routed_max
                                   THEN seen_date ELSE row.routed_max]]

\* storage.py:133-138: INSERT INTO companies
insert_company(s, name, country, seen_date, domain) ==
    LET id == next_rowid(s.companies)
        row == [name |-> name, country |-> country, domain |-> domain,
                first_seen |-> seen_date, last_seen |-> seen_date,
                routed_min |-> seen_date, routed_max |-> seen_date]
    IN  [s EXCEPT !.companies =
            [i \in DOMAIN s.companies \cup {id} |->
                IF i = id THEN row ELSE s.companies[i]]]

\* a variant that takes any candidate, whatever its confidence
accepts_any(candidates) == candidates # <<>>
\* storage.py:127: is the top candidate good enough to be taken?
accepts(candidates) ==
    candidates # <<>> /\ RLe(AutoAcceptThreshold, candidates[1].confidence)

\* storage.py:111-118: the ids found by identifier
identifier_hits(s, identifiers) ==
    {find_company_by_identifier(s, identifiers[i][1], identifiers[i][2]) :
        i \in {j \in 1..Len(identifiers) : truthy(identifiers[j][2])}} \ {NULL}

\* storage.py:116-118, 128-130: update the matched row and return its id
upsert_existing(s, id, name, country, seen_date, domain) ==
    [store |-> update_company_metadata(s, id, name, country, seen_date, domain),
     id |-> id, created |-> FALSE]

\* storage.py:126-138: the decision on the ranked candidates
upsert_decide(s, name, country, seen_date, domain, potential_duplicates) ==
    IF accepts(potential_duplicates)
      THEN upsert_existing(s, potential_duplicates[1].company_id,
                           name, country, seen_date, domain)
      ELSE [store |-> insert_company(s, name, country, seen_date, domain),
            id |-> next_rowid(s.companies), created |-> TRUE]

\* upsert_company: the store after the call, the id returned, and whether a
\* row was inserted
upsert_company(s, name, country, seen_date, domain, identifiers) ==
    IF identifier_hits(s, identifiers) # {}
      THEN upsert_existing(s, CHOOSE x \in identifier_hits(s, identifiers) : TRUE,
                           name, country, seen_date, domain)
      ELSE upsert_decide(s, name, country, seen_date, domain,
                         find_duplicate_candidates(s, name, country, identifiers))

\* a variant that keeps one event per company, date and source
add_funding_event_once(s, company_id, date, source) ==
    IF \E e \in 1..Len(s.events) :
           s.events[e] = [company_id |-> company_id, date |-> date, source |-> source]
      THEN s
      ELSE [s EXCEPT !.events =
               Append(@, [company_id |-> company_id, date |-> date, source |-> source])]
\* add_funding_event: one INSERT; the foreign key is not enforced, because
\* PRAGMA foreign_keys = ON (storage.py:95) acts on init_db's connection only
add_funding_event(s, company_id, date, source) ==
    [s EXCEPT !.events =
        Append(@, [company_id |-> company_id, date |-> date, source |-> source])]

(***************************************************************************)
(* A store connection in Python's sqlite3 (legacy transaction control):     *)
(* committed is the database as committed, work is what the connection       *)
(* sees, its own uncommitted writes included.                                *)
(***************************************************************************)
connect(store) ==
    [committed |-> store, work |-> store, in_transaction |-> FALSE, open |-> TRUE]
\* an INSERT / UPDATE / DELETE opens a transaction if none is open
conn_write(c, store) == [c EXCEPT !.work = store, !.in_transaction = TRUE]
conn_commit(c) == [c EXCEPT !.committed = c.work, !.in_transaction = FALSE]
conn_close(c) == [c EXCEPT !.open = FALSE]
\* no connection: the value of a connection variable that was never bound
NoConn == conn_close(connect(EmptyStore))
\* a variant that keeps the uncommitted work
conn_rollback_keeps(c) == conn_commit(c)
conn_rollback(c) == [c EXCEPT !.work = c.committed, !.in_transaction = FALSE]

(***************************************************************************)
(* DeduplicationEngine.merge_duplicate_companies                            *)
(***************************************************************************)
\* a variant that also clears the date of the events it re-points
repoint_events_undated(events, keep_id, merge_id) ==
    [e \in 1..Len(events) |->
        IF events[e].company_id = merge_id
          THEN [events[e] EXCEPT !.company_id = keep_id, !.date = NullDate]
          ELSE events[e]]
\* a variant that leaves every event with its owner
repoint_events_none(events, keep_id, merge_id) == events
\* UPDATE funding_events SET company_id = keep_id WHERE company_id = merge_id
repoint_events(events, keep_id, merge_id) ==
    [e \in 1..Len(events) |->
        IF events[e].company_id = merge_id
          THEN [events[e] EXCEPT !.company_id = keep_id]
          ELSE events[e]]

\* the UPDATEs for the first n ids of merge_ids, in list order
RECURSIVE repoint_first(_, _, _, _)
repoint_first(events, keep_id, merge_ids, n) ==
    IF n = 0 THEN events
    ELSE repoint_events(repoint_first(events, keep_id, merge_ids, n - 1),
                        keep_id, merge_ids[n])

\* SQLite's scalar MIN(a, b) and MAX(a, b): NULL when an argument is NULL
sql_min(a, b) == IF a = NullDate \/ b = NullDate THEN NullDate ELSE IF a <= b THEN a ELSE b
sql_max(a, b) == IF a = NullDate \/ b = NullDate THEN NullDate ELSE IF a >= b THEN a ELSE b

\* deduplication.py:256-265: all three parameters of the UPDATE are keep_id
merge_date_source(keep_id, merge_ids) == keep_id
update_kept_dates(companies, keep_id, merge_ids) ==
    LET src == merge_date_source(keep_id, merge_ids)
    IN  IF keep_id \notin DOMAIN companies THEN companies
        ELSE LET other_first == IF src \in DOMAIN companies
                                  THEN companies[src].first_seen ELSE NullDate
                 other_last == IF src \in DOMAIN companies
                                 THEN companies[src].last_seen ELSE NullDate
             IN  [companies EXCEPT
                     ![keep_id].first_seen = sql_min(@, other_first),
                     ![keep_id].last_seen = sql_max(@, other_last)]

\* a variant that deletes nothing
delete_companies_none(companies, merge_ids) == companies
\* DELETE FROM companies WHERE id IN (merge_ids)
delete_companies(companies, merge_ids) ==
    [i \in DOMAIN companies \ {merge_ids[k] : k \in 1..Len(merge_ids)} |-> companies[i]]

\* the connection's view after the first k statements of the merge
merge_statements(store, keep_id, merge_ids, k) ==
    LET n == Len(merge_ids)
        repointed == repoint_first(store.events, keep_id, merge_ids,
                                   IF k < n THEN k ELSE n)
        dated == IF k > n THEN update_kept_dates(store.companies, keep_id, merge_ids)
                          ELSE store.companies
        deleted == IF k > n + 1 THEN delete_companies(dated, merge_ids) ELSE dated
    IN  [companies |-> deleted, events |-> repointed]

\* deduplication.py:277-280: the except branch
merge_failed(c) == [conn |-> conn_rollback(c), ok |-> FALSE]

\* merge_duplicate_companies on connection c.  fault = 0: every statement
\* succeeds; fault = f > 0: the f-th statement after BEGIN raises (the first
\* Len(merge_ids) are the re-points, then the date UPDATE, then the DELETE).
merge_duplicate_companies(c, keep_id, merge_ids, fault) ==
    IF c.in_transaction
      THEN \* cur.execute("BEGIN") raises inside an open transaction
           merge_failed(c)
    ELSE IF fault = 0
      THEN [conn |-> conn_commit(conn_write(c,
                        merge_statements(c.work, keep_id, merge_ids, Len(merge_ids) + 2))),
            ok |-> TRUE]
    ELSE merge_failed(conn_write(c,
                        merge_statements(c.work, keep_id, merge_ids, fault - 1)))

(***************************************************************************)
(* DeduplicationEngine.preview_merge_impact                                 *)
(***************************************************************************)
\* COUNT(fe.id) of the LEFT JOIN for one company (deduplication.py:306-314)
event_count(s, company_id) ==
    Cardinality({e \in 1..Len(s.events) : s.events[e].company_id = company_id})

\* event_counts: an entry for every id of [keep_id] + merge_ids that has a row
event_counts(s, keep_id, merge_ids) ==
    [i \in ({keep_id} \cup {merge_ids[k] : k \in 1..Len(merge_ids)})
              \cap DOMAIN s.companies |-> event_count(s, i)]

\* sum(counts.values())
RECURSIVE sum_values(_)
sum_values(counts) ==
    IF DOMAIN counts = {} THEN 0
    ELSE LET i == CHOOSE i \in DOMAIN counts : TRUE
         IN  counts[i] + sum_values([j \in DOMAIN counts \ {i} |-> counts[j]])

\* sum(counts.get(cid, 0) for cid in the first n ids of merge_ids if cid # skip)
RECURSIVE sum_listed(_, _, _, _)
sum_listed(counts, merge_ids, n, skip) ==
    IF n = 0 THEN 0
    ELSE sum_listed(counts, merge_ids, n - 1, skip) +
         (IF merge_ids[n] \in DOMAIN counts /\ merge_ids[n] # skip
            THEN counts[merge_ids[n]] ELSE 0)

\* deduplication.py:323-328: the two numbers of the preview; 0 is no id
preview_numbers(counts, keep_id, merge_ids) ==
    [total_events_after_merge |->
         sum_values(counts) - sum_listed(counts, merge_ids, Len(merge_ids), keep_id),
     events_to_transfer |-> sum_listed(counts, merge_ids, Len(merge_ids), 0)]

preview_merge_impact(s, keep_id, merge_ids) ==
    preview_numbers(event_counts(s, keep_id, merge_ids), keep_id, merge_ids)

\* a variant whose statements are those of the merge
after_preview_merged(c, keep_id, merge_ids) ==
    conn_commit(conn_write(c,
        merge_statements(c.work, keep_id, merge_ids, Len(merge_ids) + 2)))
\* the connection after the statements of the preview, which are SELECTs
after_preview(c, keep_id, merge_ids) == c

(***************************************************************************)
(* State                                                                    *)
(***************************************************************************)
VARIABLES
    db,           \* the committed database: companies and funding_events
    ingest_runs,  \* the committed ingest_runs table
    run,          \* the executing run_one_source: its position and locals
    last,         \* history: the last operation, its arguments and result
    sessions,     \* the connections that work on the store concurrently
    fetch         \* the executing usaspending.fetch: its position and locals

vars == <<db, ingest_runs, run, last, sessions, fetch>>

NoObs == [name |-> <<>>, country |-> NULL, date |-> NullDate, domain |-> NULL]
NoLast ==
    [kind |-> "init", obs |-> NoObs, id |-> 0, created |-> FALSE,
     first_created |-> FALSE,
     keep |-> 0, ids |-> <<>>, ok |-> FALSE, repointed |-> FALSE,
     partial |-> FALSE, events_to_transfer |-> 0, total_events_after_merge |-> 0,
     identifiers |-> <<>>, candidates |-> <<>>,
     name2 |-> <<>>, similarity |-> Rat(0, 1),
     fields |-> NoFields, canonical |-> NoCanonical,
     conn |-> NoConn, pending |-> EmptyStore, fault |-> 0,
     sources |-> <<>>, next |-> 0]
\* no run_one_source is executing
IdleRun ==
    [pc |-> "idle", source |-> NULL, status |-> NULL, fetched |-> 0, normalized |-> 0,
     errors |-> NULL, todo |-> 0, conn |-> NoConn, raised |-> NULL,
     db0 |-> EmptyStore, rows0 |-> 0, outcome |-> NULL, exit |-> NULL,
     company_name |-> <<>>]

\* the response of a request that succeeded: the number of results, how many
\* of them map to an event with a company name, and page_metadata.hasNext
Responses ==
    {r \in [recs : 0..MaxRecs, named : 0..MaxRecs, hasNext : BOOLEAN] :
        r.named <= r.recs}

\* connectors/usaspending.py: fetch before it is called.  page, group and
\* data are its local variables (bound: data has been assigned), attempt is
\* _post_json's loop variable, MAX_PAGES the module's setting; requests and
\* failures count the calls of requests.post for the group and those that
\* failed, requested_page is the page of the last payload sent; results is
\* len(results) and received the number of records with a company name in
\* the responses so far
NoFetch ==
    [pc |-> "idle", MAX_PAGES |-> 0, group |-> 0, page |-> 0, attempt |-> 0,
     bound |-> FALSE, data |-> [recs |-> 0, named |-> 0, hasNext |-> FALSE],
     requests |-> 0, failures |-> 0, requested_page |-> 0,
     results |-> 0, received |-> 0,
     \* a call of _post_json on its own: the RETRIES setting, the exceptions
     \* caught so far, the factors of BACKOFF slept, and last_err
     retries |-> 0, caught |-> <<>>, slept |-> <<>>, last_err |-> NULL,
     \* connectors/sbir.py, fetch_sbir_gov_awards: params['offset'],
     \* len(awards) and the has_next of the last response
     offset |-> 0, awards |-> 0, has_next |-> FALSE]

Procs == 1..MaxSessions
\* a connection that has done nothing yet.  locked: it holds SQLite's write
\* lock, taken by its first INSERT / UPDATE / DELETE and kept until it commits
\* or rolls back; work: the store as it sees it while it holds the lock
NoSession ==
    [pc |-> "idle", locked |-> FALSE, work |-> EmptyStore,
     obs |-> NoObs, target |-> 0, id |-> 0, created |-> FALSE,
     keep |-> 0, ids |-> <<>>, k |-> 0]

Init ==
    /\ db = EmptyStore
    /\ ingest_runs = <<>>
    /\ run = IdleRun
    /\ last = NoLast
    /\ sessions = [p \in Procs |-> NoSession]
    /\ fetch = NoFetch

(***************************************************************************)
(* Store operations called directly, each on a connection of its own        *)
(***************************************************************************)
\* upsert_company(conn, name, country, seen_date, domain, identifiers)
Observation(name, country, seen_date, domain) ==
    [name |-> name, country |-> country, date |-> seen_date, domain |-> domain]

\* the history record of a resolution of obs with result r; first_created
\* tells whether the first of the consecutive calls with obs inserted the row
resolved(obs, identifiers, r, again) ==
    [NoLast EXCEPT
        !.kind = "upsert", !.obs = obs, !.identifiers = identifiers,
        !.id = r.id, !.created = r.created,
        !.first_created = IF again THEN last.first_created ELSE r.created]

ResolveAndUpsert(name, country, seen_date, domain, identifiers) ==
    \E r \in {upsert_company(db, name, country, seen_date, domain, identifiers)} :
        /\ r.created => r.id <= MaxCompanies
        /\ db' = r.store
        /\ last' = resolved(Observation(name, country, seen_date, domain),
                            identifiers, r,
                            /\ last.kind \in {"upsert", "event"}
                            /\ last.obs = Observation(name, country, seen_date, domain))
        /\ UNCHANGED <<fetch, sessions, ingest_runs, run>>

\* add_funding_event(conn, cid, ..., date, source, raw_id) for the id the
\* resolution just returned (pipeline.py:39-48)
AddFundingEvent ==
    /\ last.kind = "upsert"
    /\ Len(db.events) < MaxEvents
    /\ db' = add_funding_event(db, last.id, last.obs.date, "api")
    /\ last' = [last EXCEPT !.kind = "event"]
    /\ UNCHANGED <<fetch, sessions, ingest_runs, run>>

MergeLists == UNION {[1..n -> CompanyIds] : n \in 0..MaxMergeIds}

\* the history record of a merge: when it succeeded, its arguments and
\* whether it gave an event another owner; when it failed, whether a
\* statement had changed a row before the failure
merged(keep_id, merge_ids, fault, ok) ==
    IF ok
      THEN [NoLast EXCEPT !.kind = "merge", !.keep = keep_id, !.ids = merge_ids,
                          !.ok = TRUE,
                          !.repointed = (repoint_first(db.events, keep_id, merge_ids,
                                                       Len(merge_ids)) # db.events)]
      ELSE [NoLast EXCEPT !.kind = "merge",
                          !.partial = (fault > 0 /\
                              merge_statements(db, keep_id, merge_ids, fault - 1) # db)]

\* DeduplicationEngine(conn).merge_duplicate_companies(keep_id, merge_ids)
Merge(keep_id, merge_ids, fault) ==
    \E r \in {merge_duplicate_companies(connect(db), keep_id, merge_ids, fault)} :
        /\ db' = r.conn.committed
        /\ last' = merged(keep_id, merge_ids, fault, r.ok)
        /\ UNCHANGED <<fetch, sessions, ingest_runs, run>>

\* the history record of a preview with result r
previewed(keep_id, merge_ids, r) ==
    [NoLast EXCEPT !.kind = "preview", !.keep = keep_id, !.ids = merge_ids,
                   !.events_to_transfer = r.events_to_transfer,
                   !.total_events_after_merge = r.total_events_after_merge]

\* DeduplicationEngine(conn).preview_merge_impact(keep_id, merge_ids)
Preview(keep_id, merge_ids) ==
    /\ db' = after_preview(connect(db), keep_id, merge_ids).committed
    /\ last' = previewed(keep_id, merge_ids,
                         preview_merge_impact(db, keep_id, merge_ids))
    /\ UNCHANGED <<fetch, sessions, ingest_runs, run>>

\* the history record of a merge on a connection with pending writes:
\* the store the connection saw before the merge, the fault, the result
merged_on(c, keep_id, merge_ids, fault, r) ==
    [NoLast EXCEPT !.kind = "merge_on", !.keep = keep_id, !.ids = merge_ids,
                   !.pending = c.work, !.fault = fault, !.ok = r.ok, !.conn = r.conn]

\* upsert_company(conn, ...) and then, on the same connection and before
\* any commit, DeduplicationEngine(conn).merge_duplicate_companies
MergeOnPending(name, seen_date, keep_id, merge_ids, fault) ==
    \E u \in {upsert_company(db, name, "US", seen_date, NULL, <<>>)} :
    \E c \in {conn_write(connect(db), u.store)} :
    \E r \in {merge_duplicate_companies(c, keep_id, merge_ids, fault)} :
        /\ u.created => u.id <= MaxCompanies
        /\ db' = r.conn.committed
        /\ last' = merged_on(c, keep_id, merge_ids, fault, r)
        /\ UNCHANGED <<fetch, sessions, ingest_runs, run>>

\* resolutions, their events, and merges on a connection with pending writes
NextPending ==
    \/ \E name \in {Acme, Acma}, seen_date \in Dates :
          ResolveAndUpsert(name, "US", seen_date, NULL, <<>>)
    \/ AddFundingEvent
    \/ \E name \in {Acme, Acma}, keep_id \in CompanyIds, merge_id \in CompanyIds,
          fault \in 0..1 :
          MergeOnPending(name, 1, keep_id, <<merge_id>>, fault)

SpecPending == Init /\ [][NextPending]_vars

\* resolution calls alone
Next ==
    \E name \in Names, country \in Countries, seen_date \in Dates,
       domain \in Domains, identifiers \in IdentifierInputs :
       ResolveAndUpsert(name, country, seen_date, domain, identifiers)

Spec == Init /\ [][Next]_vars

\* resolutions of observations of one country, their funding events, and merges
NextMerge ==
    \/ \E name \in {Acme, Acma}, seen_date \in Dates :
          ResolveAndUpsert(name, "US", seen_date, NULL, <<>>)
    \/ AddFundingEvent
    \/ \E keep_id \in CompanyIds, merge_ids \in MergeLists :
          \E fault \in 0..(Len(merge_ids) + 2) : Merge(keep_id, merge_ids, fault)
    \/ \E keep_id \in CompanyIds, merge_ids \in MergeLists :
          Preview(keep_id, merge_ids)

SpecMerge == Init /\ [][NextMerge]_vars

\* resolution calls of observations without a domain, with and without
\* identifiers
NextIds ==
    \E name \in Names, country \in Countries, seen_date \in Dates,
       identifiers \in IdentifierInputs :
        ResolveAndUpsert(name, country, seen_date, NULL, identifiers)

SpecIds == Init /\ [][NextIds]_vars

(***************************************************************************)
(* The candidate finder on stores of up to MaxStored companies               *)
(***************************************************************************)
\* a row left by an earlier run.  The first row is any company; the later
\* ones are companies of the US, first those named Acma, then those named Acme
StoreRow(name, country) ==
    /\ last.kind = "init"
    /\ Cardinality(DOMAIN db.companies) < MaxStored
    /\ DOMAIN db.companies # {} =>
          /\ name \in {Acme, Acma}
          /\ country = "US"
          /\ name = Acma =>
                \A i \in DOMAIN db.companies \ {1} : db.companies[i].name = Acma
    /\ db' = insert_company(db, name, country, 1, NULL)
    /\ UNCHANGED <<fetch, sessions, ingest_runs, run, last>>

\* the history record of a call of find_duplicate_candidates
found(name, country, identifiers, candidates) ==
    [NoLast EXCEPT !.kind = "find",
                   !.obs = Observation(name, country, NullDate, NULL),
                   !.identifiers = identifiers, !.candidates = candidates]

\* DeduplicationEngine(conn).find_duplicate_candidates(name, country, identifiers)
FindCandidates(name, country, identifiers) ==
    /\ last' = found(name, country, identifiers,
                     find_duplicate_candidates(db, name, country, identifiers))
    /\ UNCHANGED <<fetch, sessions, db, ingest_runs, run>>

NextFind ==
    \/ \E name \in {Acme, Acma, Zed}, country \in Countries : StoreRow(name, country)
    \/ \E name \in {Acme, Acma, Zed}, country \in Countries,
          identifiers \in IdentifierInputs : FindCandidates(name, country, identifiers)

SpecFind == Init /\ [][NextFind]_vars

(***************************************************************************)
(* The similarity score of pairs of names                                   *)
(***************************************************************************)
\* the history record of a call of _calculate_name_similarity
scored(name1, name2, similarity) ==
    [NoLast EXCEPT !.kind = "score", !.obs = Observation(name1, NULL, NullDate, NULL),
                   !.name2 = name2, !.similarity = similarity]

\* DeduplicationEngine(conn)._calculate_name_similarity(name1, name2)
Score(name1, name2) ==
    /\ last' = scored(name1, name2, calculate_name_similarity(name1, name2))
    /\ UNCHANGED <<fetch, sessions, db, ingest_runs, run>>

NextScore == \E name1 \in PairNames, name2 \in PairNames : Score(name1, name2)

SpecScore == Init /\ [][NextScore]_vars

(***************************************************************************)
(* The canonicalizer on the fields of one record                            *)
(***************************************************************************)
\* the events of the fields the model draws from, computed once
CanonTable ==
    [f \in CanonNames \X CanonTypes \X CanonAmounts \X CanonDates |->
        canonical_event(f[1], f[2], f[3], f[4], None)]

\* the history record of a call of canonical_event
canonicalized(fields, canonical) ==
    [NoLast EXCEPT !.kind = "canonical", !.fields = fields, !.canonical = canonical]

\* canonical_event(company_name, funding_type, funding_amount, funding_date,
\*                 source, country)
Canonicalize(company_name, funding_type, funding_amount, funding_date) ==
    /\ last' = canonicalized(
                   [company_name |-> company_name, funding_type |-> funding_type,
                    funding_amount |-> funding_amount, funding_date |-> funding_date,
                    country |-> None],
                   CanonTable[<<company_name, funding_type, funding_amount,
                                funding_date>>])
    /\ UNCHANGED <<fetch, sessions, db, ingest_runs, run>>

NextCanon ==
    \E company_name \in CanonNames, funding_type \in CanonTypes,
       funding_amount \in CanonAmounts, funding_date \in CanonDates :
        Canonicalize(company_name, funding_type, funding_amount, funding_date)

SpecCanon == Init /\ [][NextCanon]_vars

(***************************************************************************)
(* pipeline.py: run_one_source, one step per statement group                *)
(***************************************************************************)
CONNECTORS == {"sec", "usaspending", "sbir"}
Sources == {"sbir", "unknown"}

\* a variant that keeps the error text but leaves the status as it was
on_exception_unmarked(r, text) == [r EXCEPT !.errors = text]
\* pipeline.py:50-52: the except branch
on_exception(r, text) == [r EXCEPT !.status = "failed", !.errors = text]

\* pipeline.py:21-31, with the connector's behaviour as input: it raises
\* (raises_text # NULL) or returns n events
begin_run(source, raises_text, n) ==
    LET started == [IdleRun EXCEPT
                       !.source = source, !.status = "success",
                       !.db0 = db, !.rows0 = Len(ingest_runs)]
    IN  IF source \notin CONNECTORS
          THEN [on_exception(started, "Unknown source") EXCEPT
                   !.pc = "log", !.outcome = "unknown_source"]
        ELSE IF raises_text # NULL
          THEN [on_exception(started, raises_text) EXCEPT
                   !.pc = "log", !.outcome = "connector_raised"]
        ELSE [started EXCEPT
                 !.pc = "loop", !.fetched = n, !.todo = n, !.conn = connect(db),
                 !.outcome = "fetched"]

StartRun(source, raises_text, n) ==
    /\ run.pc = "idle"
    /\ Len(ingest_runs) < MaxRuns
    /\ run' = begin_run(source, raises_text, n)
    /\ UNCHANGED <<fetch, sessions, db, ingest_runs, last>>

\* the company_name of a fetched event: a name, a name in blanks, '' and '  '
EventNames == {Acme, <<" ">> \o Acma \o <<" ">>, <<>>, <<" ", " ">>}

\* str(ev.get("funding_date")): the text of the date, 'None' for None
str_date(funding_date) == IF funding_date = NullDate THEN NoneText ELSE funding_date

\* pipeline.py:33-35: an event whose company_name strips to '' is skipped
SkipEvent(company_name) ==
    /\ run.pc = "loop"
    /\ run.todo > 0
    /\ str_strip(company_name) = <<>>
    /\ run' = [run EXCEPT !.todo = @ - 1, !.company_name = company_name]
    /\ UNCHANGED <<fetch, sessions, db, ingest_runs, last>>

\* a variant that counts an observation before its event is inserted
processed_counted_first(r, date, raw_id_bindable) ==
    IF raw_id_bindable
      THEN [run EXCEPT
               !.conn = conn_write(@, add_funding_event(r.store, r.id, date, run.source)),
               !.normalized = @ + 1, !.todo = @ - 1]
      ELSE [run EXCEPT !.conn = conn_write(@, r.store), !.pc = "raised",
                       !.normalized = @ + 1,
                       !.raised = "error", !.outcome = "processing_error"]
\* the run after upsert_company returned r on its connection and
\* add_funding_event was called with a raw_id that sqlite3 can bind or not
processed(r, date, raw_id_bindable) ==
    IF raw_id_bindable
      THEN [run EXCEPT
               !.conn = conn_write(@, add_funding_event(r.store, r.id, date, run.source)),
               !.normalized = @ + 1, !.todo = @ - 1]
      ELSE \* cur.execute raises: the exception leaves the with block
           [run EXCEPT !.conn = conn_write(@, r.store), !.pc = "raised",
                       !.raised = "error", !.outcome = "processing_error"]

\* pipeline.py:33-49: one event with a name
ProcessEvent(company_name, country, funding_date, domain, raw_id_bindable) ==
    /\ run.pc = "loop"
    /\ run.todo > 0
    /\ str_strip(company_name) # <<>>
    /\ \E r \in {upsert_company(run.conn.work, str_strip(company_name), country,
                                str_date(funding_date), domain, <<>>)} :
          /\ r.created => r.id <= MaxCompanies
          /\ Len(run.conn.work.events) < MaxEvents
          /\ run' = [processed(r, str_date(funding_date), raw_id_bindable)
                        EXCEPT !.company_name = company_name]
    /\ UNCHANGED <<fetch, sessions, db, ingest_runs, last>>

\* get_conn's finally (storage.py:24-26), on the normal exit and on an
\* exception alike: conn.commit(); conn.close()
exit_scope(conn) == conn_close(conn_commit(conn))

ExitScope ==
    /\ \/ run.pc = "loop" /\ run.todo = 0
       \/ run.pc = "raised"
    /\ db' = exit_scope(run.conn).committed
    /\ run' = IF run.pc = "raised"
                THEN [on_exception(run, run.raised) EXCEPT
                         !.pc = "log", !.conn = exit_scope(run.conn)]
                ELSE [run EXCEPT !.pc = "log", !.conn = exit_scope(run.conn)]
    /\ UNCHANGED <<fetch, sessions, ingest_runs, last>>

\* a variant that writes the row of a successful run only
log_ingest_run_on_success(rows, source, status, fetched, normalized, errors) ==
    IF status = "success"
      THEN Append(rows, [source |-> source, status |-> status,
                         records_fetched |-> fetched,
                         records_normalized |-> normalized, errors |-> errors])
      ELSE rows
\* log_ingest_run: one INSERT INTO ingest_runs
log_ingest_run(rows, source, status, fetched, normalized, errors) ==
    Append(rows, [source |-> source, status |-> status,
                  records_fetched |-> fetched,
                  records_normalized |-> normalized, errors |-> errors])

\* run_one_source is over: it returned or an exception left it
returned(raises) == [IdleRun EXCEPT !.exit = IF raises THEN "raised" ELSE "returned"]

\* pipeline.py:53-65: the finally block writes the ledger row
LogRun ==
    /\ run.pc = "log"
    /\ ingest_runs' = log_ingest_run(ingest_runs, run.source, run.status,
                                     run.fetched, run.normalized, run.errors)
    /\ run' = IF run.status # "success" THEN [run EXCEPT !.pc = "notify"]
                                        ELSE returned(FALSE)
    /\ UNCHANGED <<fetch, sessions, db, last>>

\* alerts/email.py:7-32, with the environment as input.  int() of SMTP_PORT
\* (line 9) is evaluated before the configuration test and outside the try
\* of lines 24-32; the SMTP conversation is inside it
send_email(port_is_int, configured, smtp_ok) ==
    IF ~port_is_int THEN [raises |-> TRUE, err |-> NULL]
    ELSE IF ~configured THEN [raises |-> FALSE, err |-> "Email not sent"]
    ELSE IF ~smtp_ok THEN [raises |-> FALSE, err |-> "Email send failed"]
    ELSE [raises |-> FALSE, err |-> NULL]

\* pipeline.py:66-72: send_email returns None or an error text, which is
\* printed; an exception of send_email leaves the finally block and the function
Notify(port_is_int, configured, smtp_ok) ==
    /\ run.pc = "notify"
    /\ run' = returned(send_email(port_is_int, configured, smtp_ok).raises)
    /\ UNCHANGED <<fetch, sessions, db, ingest_runs, last>>

NextRun ==
    \/ \E source \in Sources, raises_text \in ErrorTexts \cup {NULL},
          n \in 0..MaxFetched : StartRun(source, raises_text, n)
    \/ \E company_name \in EventNames : SkipEvent(company_name)
    \/ \E company_name \in EventNames, funding_date \in Dates \cup {NullDate},
          raw_id_bindable \in BOOLEAN :
          ProcessEvent(company_name, "US", funding_date, NULL, raw_id_bindable)
    \/ ExitScope
    \/ LogRun
    \/ \E port_is_int \in BOOLEAN, configured \in BOOLEAN, smtp_ok \in BOOLEAN :
          Notify(port_is_int, configured, smtp_ok)

SpecRun == Init /\ [][NextRun]_vars

\* pipeline.py:11-15: run_sources is called with a list of sources; next is
\* the position of the for loop in it
RunSources(sources) ==
    /\ last.kind = "init"
    /\ run.pc = "idle"
    /\ last' = [NoLast EXCEPT !.kind = "run_sources", !.sources = sources, !.next = 1]
    /\ UNCHANGED <<fetch, sessions, db, ingest_runs, run>>

\* pipeline.py:16-17: the for loop calls run_one_source for the next source,
\* unless an exception of the call before has left run_sources
NextSource(raises_text, n) ==
    /\ last.kind = "run_sources"
    /\ run.pc = "idle"
    /\ run.exit # "raised"
    /\ last.next <= Len(last.sources)
    /\ run' = begin_run(last.sources[last.next], raises_text, n)
    /\ last' = [last EXCEPT !.next = @ + 1]
    /\ UNCHANGED <<fetch, sessions, db, ingest_runs>>

\* the lists of sources run_sources is called with
SourceLists == UNION {[1..n -> Sources] : n \in 1..MaxRuns}

\* calls of run_sources and the steps of the runs they start
NextSources ==
    \/ \E sources \in SourceLists : RunSources(sources)
    \/ \E raises_text \in ErrorTexts \cup {NULL}, n \in 0..1 :
          NextSource(raises_text, n)
    \/ \E company_name \in EventNames : SkipEvent(company_name)
    \/ \E company_name \in EventNames, funding_date \in Dates \cup {NullDate},
          raw_id_bindable \in BOOLEAN :
          ProcessEvent(company_name, "US", funding_date, NULL, raw_id_bindable)
    \/ ExitScope
    \/ LogRun
    \/ \E port_is_int \in BOOLEAN, configured \in BOOLEAN, smtp_ok \in BOOLEAN :
          Notify(port_is_int, configured, smtp_ok)

SpecSources == Init /\ [][NextSources]_vars

\* get_conn's finally when conn.commit() raises (storage.py:25): the
\* exception leaves the finally block before conn.close() on line 26, the
\* open transaction is not committed, and run_one_source's except branch
\* takes the exception, in place of the one that left the with block if any
ExitScopeCommitRaises(text) ==
    /\ \/ run.pc = "loop" /\ run.todo = 0
       \/ run.pc = "raised"
    /\ run' = [on_exception(run, text) EXCEPT !.pc = "log", !.raised = text]
    /\ UNCHANGED <<fetch, sessions, db, ingest_runs, last>>

\* runs on a store whose commit can fail
NextConn ==
    \/ NextRun
    \/ ExitScopeCommitRaises("error")

SpecConn == Init /\ [][NextConn]_vars

(***************************************************************************)
(* Connections that work on the store at the same time (web.py starts       *)
(* run_sources in background threads; the scheduler and the CLI are other   *)
(* processes).  A connection reads the committed store, or its own          *)
(* uncommitted work once it has written; SQLite lets one connection write   *)
(* at a time, and the others' writes wait and fail with 'database is        *)
(* locked' when the wait times out.                                         *)
(***************************************************************************)
\* what connection p reads
view(ss, p) == IF ss[p].locked THEN ss[p].work ELSE db

\* a variant without the write lock
can_write_always(ss, p) == TRUE
\* may p execute an INSERT / UPDATE / DELETE now?
can_write(ss, p) == \A q \in Procs \ {p} : ~ss[q].locked

\* storage.py:120-127: the decision of upsert_company on the ranked
\* candidates: the id to update, or 0 for an insert
decided(se, obs, candidates) ==
    [se EXCEPT !.pc = "decided", !.obs = obs,
               !.target = IF accepts(candidates)
                            THEN candidates[1].company_id ELSE 0]

\* upsert_company up to its decision (storage.py:120-127): the SELECTs
Lookup(p, name, country, seen_date) ==
    /\ sessions[p].pc = "idle"
    /\ \E cands \in {find_duplicate_candidates(view(sessions, p), name, country, <<>>)} :
          sessions' = [sessions EXCEPT
              ![p] = decided(@, Observation(name, country, seen_date, NULL), cands)]
    /\ UNCHANGED <<fetch, db, ingest_runs, run, last>>

\* the session after its UPDATE (storage.py:128-130) or INSERT
\* (storage.py:132-138) on the store v it sees
written(se, v) ==
    IF se.target = 0
      THEN [se EXCEPT !.pc = "event", !.locked = TRUE,
                      !.work = insert_company(v, se.obs.name, se.obs.country,
                                              se.obs.date, se.obs.domain),
                      !.id = next_rowid(v.companies), !.created = TRUE]
      ELSE IF se.target \in DOMAIN v.companies
      THEN [se EXCEPT !.pc = "event", !.locked = TRUE,
                      !.work = update_company_metadata(v, se.target, se.obs.name,
                                   se.obs.country, se.obs.date, se.obs.domain),
                      !.id = se.target, !.created = FALSE]
      \* storage.py:151-159: the SELECT finds no row and nothing is written;
      \* storage.py:130 returns the id all the same
      ELSE [se EXCEPT !.pc = "event", !.id = se.target, !.created = FALSE]

\* does the next statement of p write?  The UPDATE of a row that is gone is
\* never executed (storage.py:158-159)
writes(ss, p) ==
    ss[p].pc = "decided" =>
        \/ ss[p].target = 0
        \/ ss[p].target \in DOMAIN view(ss, p).companies

\* the rest of upsert_company: the write that the decision asks for
Write(p) ==
    /\ sessions[p].pc = "decided"
    /\ writes(sessions, p) => can_write(sessions, p)
    /\ \E v \in {view(sessions, p)} :
          /\ sessions[p].target = 0 => next_rowid(v.companies) <= MaxCompanies
          /\ Len(v.events) < MaxEvents
          /\ sessions' = [sessions EXCEPT ![p] = written(@, v)]
    /\ UNCHANGED <<fetch, db, ingest_runs, run, last>>

\* the write waits for the lock in vain: sqlite3.OperationalError, which
\* ends the work of the connection
Busy(p) ==
    /\ sessions[p].pc \in {"decided", "event", "merge"}
    /\ writes(sessions, p)
    /\ ~can_write(sessions, p)
    /\ sessions' = [sessions EXCEPT ![p] = NoSession]
    /\ UNCHANGED <<fetch, db, ingest_runs, run, last>>

\* add_funding_event for the id that upsert_company returned (pipeline.py:39-48)
WriteEvent(p) ==
    /\ sessions[p].pc = "event"
    /\ can_write(sessions, p)
    /\ Len(view(sessions, p).events) < MaxEvents
    /\ sessions' = [sessions EXCEPT
           ![p] = [@ EXCEPT !.pc = "idle", !.obs = NoObs, !.target = 0,
                            !.locked = TRUE,
                            !.work = add_funding_event(view(sessions, p), sessions[p].id,
                                                       sessions[p].obs.date, "api")]]
    /\ UNCHANGED <<fetch, db, ingest_runs, run, last>>

\* get_conn's finally: conn.commit()
Commit(p) ==
    /\ sessions[p].pc = "idle"
    /\ sessions[p].locked
    /\ db' = sessions[p].work
    /\ sessions' = [sessions EXCEPT
           ![p] = [@ EXCEPT !.locked = FALSE, !.work = EmptyStore]]
    /\ UNCHANGED <<fetch, ingest_runs, run, last>>

\* merge_duplicate_companies: BEGIN (deduplication.py:246), which takes no lock
MergeBegin(p, keep_id, merge_ids) ==
    /\ sessions[p].pc = "idle"
    /\ ~sessions[p].locked
    /\ sessions' = [sessions EXCEPT
           ![p] = [NoSession EXCEPT !.pc = "merge", !.keep = keep_id,
                                    !.ids = merge_ids]]
    /\ UNCHANGED <<fetch, db, ingest_runs, run, last>>

\* the next statement of the merge (deduplication.py:249-269)
MergeStatement(p) ==
    /\ sessions[p].pc = "merge"
    /\ sessions[p].k < Len(sessions[p].ids) + 2
    /\ can_write(sessions, p)
    /\ sessions' = [sessions EXCEPT
           ![p] = [@ EXCEPT !.locked = TRUE, !.k = @ + 1,
                            !.work = merge_statements(db, sessions[p].keep,
                                         sessions[p].ids, sessions[p].k + 1)]]
    /\ UNCHANGED <<fetch, db, ingest_runs, run, last>>

\* self.conn.commit() and return True (deduplication.py:272-275)
MergeCommit(p) ==
    /\ sessions[p].pc = "merge"
    /\ sessions[p].k = Len(sessions[p].ids) + 2
    /\ db' = sessions[p].work
    /\ sessions' = [sessions EXCEPT ![p] = NoSession]
    /\ UNCHANGED <<fetch, ingest_runs, run, last>>

NextRace ==
    \E p \in Procs :
        \/ \E name \in {Acme, AcmeInc} : Lookup(p, name, "US", 1)
        \/ Write(p)
        \/ Busy(p)
        \/ WriteEvent(p)
        \/ Commit(p)
        \/ \E keep_id \in 1..MaxCompanies, merge_id \in 1..MaxCompanies :
              MergeBegin(p, keep_id, <<merge_id>>)
        \/ MergeStatement(p)
        \/ MergeCommit(p)

SpecRace == Init /\ [][NextRace]_vars

(***************************************************************************)
(* connectors/usaspending.py: fetch, one step per call of requests.post      *)
(***************************************************************************)
\* usaspending.py:19, the default of USASPENDING_RETRIES
RETRIES == 3

\* usaspending.py:17: MAX_PAGES is read from the environment when the module
\* is loaded; usaspending.py:85-88: the first group starts at page 1
FetchStart(max_pages) ==
    /\ fetch.pc = "idle"
    /\ fetch' = [NoFetch EXCEPT !.pc = "while", !.MAX_PAGES = max_pages,
                                !.group = 1, !.page = 1, !.attempt = 1]
    /\ UNCHANGED <<db, ingest_runs, run, last, sessions>>

\* usaspending.py:89-103 and _post_json (23-40): the body of the while loop
\* is the payload and data = _post_json(url, payload) only, so after a
\* response the loop tests page <= MAX_PAGES again with page as it was
post_json(f, ok, response) ==
    LET sent == [f EXCEPT !.requests = @ + 1, !.requested_page = f.page]
    IN  IF ok
          THEN \* results.append is on line 122, after the loop: results is
               \* as it was
               [sent EXCEPT !.bound = TRUE, !.data = response, !.attempt = 1,
                            !.received = @ + response.named]
        ELSE IF f.attempt >= RETRIES
          THEN \* raise last_err: the exception leaves fetch
               [sent EXCEPT !.failures = @ + 1, !.pc = "raised"]
        ELSE [sent EXCEPT !.failures = @ + 1, !.attempt = @ + 1]

Request(ok, response) ==
    /\ fetch.pc = "while"
    /\ fetch.page <= fetch.MAX_PAGES
    /\ fetch.requests < MaxRequests
    /\ fetch' = post_json(fetch, ok, response)
    /\ UNCHANGED <<db, ingest_runs, run, last, sessions>>

\* usaspending.py:105-117, reached when the while loop ends because
\* page > MAX_PAGES.  page changes on line 129 only, after the loop, so the
\* loop ends only if it never ran: data is not bound, the NameError of line
\* 111 is swallowed by the except of line 114 and that of line 117 leaves fetch
AfterWhile ==
    /\ fetch.pc = "while"
    /\ fetch.page > fetch.MAX_PAGES
    /\ fetch' = [fetch EXCEPT !.pc = "raised"]
    /\ UNCHANGED <<db, ingest_runs, run, last, sessions>>

\* the exceptions requests.post and raise_for_status raise
RequestErrors == {"Timeout", "ConnectionError", "HTTPError"}

\* usaspending.py:17-20: RETRIES is read from the environment
PostStart(retries) ==
    /\ fetch.pc = "idle"
    /\ fetch' = [NoFetch EXCEPT !.pc = "post", !.retries = retries, !.attempt = 1]
    /\ UNCHANGED <<db, ingest_runs, run, last, sessions>>

\* 2 ** n
RECURSIVE pow2(_)
pow2(n) == IF n = 0 THEN 1 ELSE 2 * pow2(n - 1)

\* max(1, RETRIES)
max_attempts(retries) == IF retries > 1 THEN retries ELSE 1

\* a variant that sleeps after the last attempt as well
post_json_attempt_sleeps(f, ok, err) ==
    LET sent == [f EXCEPT !.requests = @ + 1]
    IN  IF ok THEN [sent EXCEPT !.pc = "post_returned"]
        ELSE IF f.attempt >= max_attempts(f.retries)
          THEN [sent EXCEPT !.caught = Append(@, err), !.last_err = err,
                            !.slept = Append(@, pow2(f.attempt - 1)),
                            !.pc = "post_raised"]
        ELSE [sent EXCEPT !.caught = Append(@, err), !.last_err = err,
                          !.slept = Append(@, pow2(f.attempt - 1)),
                          !.attempt = @ + 1]
\* usaspending.py:30-40: one pass of the for loop of _post_json, the request
\* succeeding (ok) or raising err; after the loop, raise last_err
post_json_attempt(f, ok, err) ==
    LET sent == [f EXCEPT !.requests = @ + 1]
    IN  IF ok THEN [sent EXCEPT !.pc = "post_returned"]
        ELSE IF f.attempt >= max_attempts(f.retries)
          THEN [sent EXCEPT !.caught = Append(@, err), !.last_err = err,
                            !.pc = "post_raised"]
        ELSE [sent EXCEPT !.caught = Append(@, err), !.last_err = err,
                          !.slept = Append(@, pow2(f.attempt - 1)),
                          !.attempt = @ + 1]

PostAttempt(ok, err) ==
    /\ fetch.pc = "post"
    /\ fetch' = post_json_attempt(fetch, ok, err)
    /\ UNCHANGED <<db, ingest_runs, run, last, sessions>>

\* calls of _post_json under every RETRIES setting from -1 to MaxRetries
NextPost ==
    \/ \E retries \in -1..MaxRetries : PostStart(retries)
    \/ \E ok \in BOOLEAN, err \in RequestErrors : PostAttempt(ok, err)

SpecPost == Init /\ [][NextPost]_vars

(***************************************************************************)
(* connectors/sbir.py: fetch_sbir_gov_awards, one step per call of           *)
(* requests.get                                                              *)
(***************************************************************************)
\* sbir.py:51, params['limit']
SbirLimit == 1000
\* sbir.py:73, the safety limit on len(awards)
SafetyLimit == 10000
\* the numbers of awards of a response that normalize_sbir_award accepts
SbirPages == {0, 500, 1000, 3000}

\* sbir.py:43-57
SbirStart ==
    /\ fetch.pc = "idle"
    /\ fetch' = [NoFetch EXCEPT !.pc = "sbir_while"]
    /\ UNCHANGED <<db, ingest_runs, run, last, sessions>>

\* sbir.py:63-76: the response adds its normalized awards; the loop goes on
\* when has_next is true and len(awards) < 10000.  An offset that would
\* pass MaxOffset is folded back by one page, so that the offsets beyond it
\* are two values in turn
next_page(f, added, has_next) ==
    IF has_next /\ f.awards + added < SafetyLimit
      THEN [f EXCEPT !.awards = @ + added, !.has_next = has_next,
                     !.offset = IF @ + SbirLimit <= MaxOffset
                                  THEN @ + SbirLimit ELSE @ - SbirLimit]
      ELSE [f EXCEPT !.awards = @ + added, !.has_next = has_next,
                     !.pc = "sbir_returned"]

\* sbir.py:59-83: one pass of the while loop.  ok: the request returns a
\* response; otherwise it raises a RequestException and the except branch
\* returns what the fallback gives
SbirRequest(ok, added, has_next) ==
    /\ fetch.pc = "sbir_while"
    /\ fetch' = IF ok THEN next_page(fetch, added, has_next)
                      ELSE [fetch EXCEPT !.pc = "sbir_returned"]
    /\ UNCHANGED <<db, ingest_runs, run, last, sessions>>

\* the steps of the loop
SbirStep ==
    \E ok \in BOOLEAN, added \in SbirPages, has_next \in BOOLEAN :
        SbirRequest(ok, added, has_next)

NextSbir ==
    \/ SbirStart
    \/ SbirStep

\* every request returns or raises: the loop is never left waiting
SpecSbir == Init /\ [][NextSbir]_vars /\ WF_vars(SbirStep)

NextFetch ==
    \/ \E max_pages \in 0..MaxPagesSetting : FetchStart(max_pages)
    \/ \E ok \in BOOLEAN, response \in Responses : Request(ok, response)
    \/ AfterWhile

SpecFetch == Init /\ [][NextFetch]_vars

(***************************************************************************)
(* Properties of resolution (Spec)                                          *)
(***************************************************************************)
\* two consecutive steps resolve the same observation
SameObservationAgain ==
    /\ last.kind = "upsert"
    /\ last'.kind = "upsert"
    /\ last'.obs = last.obs

\* C1: resolving the same (name, country, seenDate, domain) observation again
\* returns the id the previous call returned and inserts no row, and a row
\* that the first of the calls inserted keeps first_seen = last_seen = seenDate.
C1_Idempotent ==
    [][SameObservationAgain =>
          /\ last'.id = last.id
          /\ ~last'.created
          /\ DOMAIN db'.companies = DOMAIN db.companies
          /\ last'.first_created =>
                /\ db'.companies[last'.id].first_seen = last'.obs.date
                /\ db'.companies[last'.id].last_seen = last'.obs.date]_vars

\* C2: every company's first_seen is the least and its last_seen the greatest
\* of the seenDate values resolved to it, the one it was inserted with included.
C2_DateSpan ==
    \A i \in DOMAIN db.companies :
        /\ db.companies[i].first_seen = db.companies[i].routed_min
        /\ db.companies[i].last_seen = db.companies[i].routed_max

\* C2 witness: the latest observation was resolved to an existing row and
\* carried that row's least date, below the row's greatest: it came out of order
C2_OutOfOrder ==
    /\ last.kind = "upsert"
    /\ ~last.created
    /\ last.id \in DOMAIN db.companies
    /\ db.companies[last.id].first_seen = last.obs.date
    /\ db.companies[last.id].first_seen < db.companies[last.id].last_seen

\* the decision the policy prescribes for a call with observation obs and
\* identifiers idn in store s, against the result (id, created) and store t
PolicyFollowed(s, t, obs, idn, id, created) ==
    LET cands == find_duplicate_candidates(s, obs.name, obs.country, idn)
    IN  IF cands # <<>> /\ RLe(Rat(85, 100), cands[1].confidence)
          THEN /\ id = cands[1].company_id
               /\ ~created
               /\ DOMAIN t.companies = DOMAIN s.companies
               /\ t.companies[id].name = obs.name
               /\ t.companies[id].country = obs.country
               /\ \A i \in DOMAIN s.companies \ {id} : t.companies[i] = s.companies[i]
          ELSE /\ created
               /\ id \notin DOMAIN s.companies
               /\ DOMAIN t.companies = DOMAIN s.companies \cup {id}
               /\ t.companies[id].first_seen = obs.date
               /\ t.companies[id].last_seen = obs.date
               /\ t.companies[id].country = obs.country
               /\ t.companies[id].domain = obs.domain
               /\ t.companies[id].name = obs.name
               /\ \A i \in DOMAIN s.companies : t.companies[i] = s.companies[i]

\* C10: every call either updates the top-ranked candidate, when its
\* confidence is at least 0.85, returning its id and inserting nothing, or
\* inserts exactly one row with first_seen = last_seen = seenDate and the
\* given country and domain, returning the new id and changing no other row.
C10_DecisionPolicy ==
    [][last'.kind = "upsert" =>
          \A idn \in IdentifierInputs :
              PolicyFollowed(db, db', last'.obs, idn, last'.id, last'.created)]_vars

\* C10 witness: a row was inserted although another row was a candidate,
\* with a confidence below 0.85
C10_InsertedDespiteCandidate ==
    /\ last.kind = "upsert"
    /\ last.created
    /\ \E i \in DOMAIN db.companies \ {last.id} :
          /\ truthy(last.obs.country) => db.companies[i].country = last.obs.country
          /\ ScoreTable[last.obs.name][db.companies[i].name].substantial
          /\ RLt(ScoreTable[last.obs.name][db.companies[i].name].confidence,
                 Rat(85, 100))

\* this step resolves an observation to a row that existed before it
ResolvesToExisting ==
    /\ last'.kind = "upsert"
    /\ ~last'.created
    /\ last'.id \in DOMAIN db.companies

\* C11: a call that resolves an observation to an existing company by name
\* similarity leaves that company's stored name as it was.
C11_NamePreserved ==
    [][ResolvesToExisting =>
          db'.companies[last'.id].name = db.companies[last'.id].name]_vars

\* C12: a call that resolves to a company whose domain is not NULL leaves the
\* domain as it was, whatever domain the call supplies; a company whose
\* domain is NULL takes the domain the call supplies.
C12_DomainFirstWriter ==
    [][ResolvesToExisting =>
          db'.companies[last'.id].domain =
              IF db.companies[last'.id].domain # NULL
                THEN db.companies[last'.id].domain
                ELSE last'.obs.domain]_vars

\* C12 witness: the latest call resolved to a company and supplied a domain
\* that is not NULL and is not the one the company has
C12_OtherDomainSupplied ==
    /\ last.kind = "upsert"
    /\ ~last.created
    /\ last.id \in DOMAIN db.companies
    /\ last.obs.domain # NULL
    /\ db.companies[last.id].domain # NULL
    /\ db.companies[last.id].domain # last.obs.domain

\* the companies of store s with the country of obs whose name is another
\* spelling of obs.name: the two normalise to the same text
VariantsOf(s, obs) ==
    {i \in DOMAIN s.companies :
        /\ s.companies[i].country = obs.country
        /\ s.companies[i].name # obs.name
        /\ normalize_company_name(s.companies[i].name) =
               normalize_company_name(obs.name)}

\* C13: an observation whose name is a variant spelling (case, punctuation,
\* legal-entity suffix) of the one company with that spelling and the same
\* country resolves to that company and inserts no row.
C13_VariantsResolveTogether ==
    [][last'.kind = "upsert" =>
          \A c \in VariantsOf(db, last'.obs) :
              VariantsOf(db, last'.obs) = {c} =>
                  /\ last'.id = c
                  /\ ~last'.created]_vars

\* C24: whatever identifiers are passed with an observation, the candidate
\* list, the id returned and the store after the resolution are those of the
\* resolution without identifiers, and no candidate has match type
\* 'identifier_exact'.
C24_IdentifiersNoEffect ==
    [][last'.kind = "upsert" =>
          \A identifiers \in IdentifierInputs :
             /\ find_duplicate_candidates(db, last'.obs.name, last'.obs.country,
                                          identifiers)
                  = find_duplicate_candidates(db, last'.obs.name, last'.obs.country,
                                              <<>>)
             /\ \A k \in 1..Len(find_duplicate_candidates(
                                     db, last'.obs.name, last'.obs.country, identifiers)) :
                    find_duplicate_candidates(db, last'.obs.name, last'.obs.country,
                                              identifiers)[k].match_type
                        # "identifier_exact"
             /\ upsert_company(db, last'.obs.name, last'.obs.country, last'.obs.date,
                               last'.obs.domain, identifiers).store = db'
             /\ upsert_company(db, last'.obs.name, last'.obs.country, last'.obs.date,
                               last'.obs.domain, identifiers).id = last'.id]_vars

\* C24 witness: an observation resolved with a UEI to a stored company
C24_ResolvedWithIdentifier ==
    /\ last.kind = "upsert"
    /\ last.identifiers # <<>>
    /\ ~last.created
    /\ Cardinality(DOMAIN db.companies) > 1

(***************************************************************************)
(* Properties of the canonicalizer (SpecCanon)                              *)
(***************************************************************************)
\* a text field that is None or empty after trimming
Blank(text) == text = None \/ \A i \in 1..Len(text) : text[i] = " "

\* C27: canonical_event raises no exception; a blank company name becomes
\* the empty text and a blank funding type None, a date that matches none
\* of the formats becomes None, and an amount text that is no number
\* becomes None.
C27_Total ==
    last.kind = "canonical" =>
        /\ ~last.canonical.raises
        /\ Blank(last.fields.company_name) => last.canonical.company_name = <<>>
        /\ Blank(last.fields.funding_type) => last.canonical.funding_type = None
        /\ (/\ ~Blank(last.fields.funding_date)
            /\ ~recognized(head19(str_strip(last.fields.funding_date)))) =>
               last.canonical.funding_date = None
        /\ (/\ last.fields.funding_amount.kind = "str"
            /\ ~is_float_text(last.fields.funding_amount.text)) =>
               last.canonical.funding_amount = NoAmount

\* the amount text without currency symbols and thousands separators
Unformatted(text) == SelectSeq(text, LAMBDA c : c \notin {"$", ","})

\* C28: an amount text that is a number once its currency symbols and
\* thousands separators are taken out canonicalizes to that number.
C28_AmountStrings ==
    (/\ last.kind = "canonical"
     /\ last.fields.funding_amount.kind = "str"
     /\ is_float_text(Unformatted(last.fields.funding_amount.text))) =>
        /\ ~last.canonical.raises
        /\ last.canonical.funding_amount.kind = "float"
        /\ RLe(last.canonical.funding_amount.value,
               float_value(Unformatted(last.fields.funding_amount.text)).value)
        /\ RLe(float_value(Unformatted(last.fields.funding_amount.text)).value,
               last.canonical.funding_amount.value)

(***************************************************************************)
(* Properties of the similarity score (SpecScore)                           *)
(***************************************************************************)
\* C25: the score of a pair of names is the score of the pair in the other
\* order.
C25_Symmetric ==
    last.kind = "score" =>
        /\ RLe(last.similarity, calculate_name_similarity(last.name2, last.obs.name))
        /\ RLe(calculate_name_similarity(last.name2, last.obs.name), last.similarity)

\* C26: the score of a non-empty name with itself is 1.0, also when it
\* normalizes to the empty text or to three characters or fewer, and the
\* score is 0.0 when one of the names is empty or None.
C26_Boundary ==
    last.kind = "score" =>
        /\ (last.obs.name = last.name2 /\ last.name2 \notin {<<>>, None}) =>
               last.similarity[1] = last.similarity[2]
        /\ (last.obs.name \in {<<>>, None} \/ last.name2 \in {<<>>, None}) =>
               last.similarity[1] = 0

\* C26 witness: a name that normalizes to the empty text was scored with itself
C26_SuffixOnlyName ==
    /\ last.kind = "score"
    /\ last.obs.name = last.name2
    /\ last.name2 # <<>>
    /\ normalize_company_name(last.name2) = <<>>

(***************************************************************************)
(* Properties of the candidate finder (SpecFind)                             *)
(***************************************************************************)
\* the ids of a candidate list
CandidateIds(candidates) == {candidates[k].company_id : k \in 1..Len(candidates)}

\* the companies that find_duplicate_candidates considers for the last
\* query: those of the query's country, if it has one, whose name scores at
\* least the floor
Eligible ==
    {i \in DOMAIN db.companies :
        /\ truthy(last.obs.country) => db.companies[i].country = last.obs.country
        /\ ScoreTable[last.obs.name][db.companies[i].name].substantial}

\* C22: a candidate list has at most 10 entries, in non-increasing order of
\* confidence, each a company whose name scores at least 0.60 against the
\* query, and no eligible company left out has a higher confidence than a
\* listed one.
C22_CandidateShape ==
    last.kind = "find" =>
        /\ Len(last.candidates) <= 10
        /\ \A k \in 1..(Len(last.candidates) - 1) :
              RLe(last.candidates[k + 1].confidence, last.candidates[k].confidence)
        /\ \A k \in 1..Len(last.candidates) :
              RLe(Rat(6, 10),
                  ScoreTable[last.obs.name][last.candidates[k].name].similarity)
        /\ \A i \in Eligible \ CandidateIds(last.candidates) :
              \A k \in 1..Len(last.candidates) :
                 RLe(ScoreTable[last.obs.name][db.companies[i].name].confidence,
                     last.candidates[k].confidence)

\* C22 witness: eleven companies are eligible, with different confidences,
\* and one company scores below the floor; the list has ten entries
C22_Truncated ==
    /\ last.kind = "find"
    /\ Len(last.candidates) = 10
    /\ Cardinality(Eligible) > 10
    /\ Eligible # DOMAIN db.companies
    /\ RLt(last.candidates[10].confidence, last.candidates[1].confidence)

\* the alphanumeric-only lowercase collapses of the two names are equal and
\* longer than 3 characters
CollapsesCoincide(a, b) ==
    /\ SelectSeq(str_lower(a), IsAlnum) = SelectSeq(str_lower(b), IsAlnum)
    /\ Len(SelectSeq(str_lower(a), IsAlnum)) > 3

\* C23: a name-similarity candidate has the +0.20 boost (capped at 0.95) and
\* match type 'name_similarity_domain' exactly when the collapses of the
\* query name and of its name coincide; every other one has match type
\* 'name_similarity' and its similarity as confidence.
C23_DomainTag ==
    last.kind = "find" =>
        \A k \in 1..Len(last.candidates) :
            IF CollapsesCoincide(last.obs.name, last.candidates[k].name)
              THEN /\ last.candidates[k].match_type = "name_similarity_domain"
                   /\ last.candidates[k].confidence =
                          RMin(BoostCap,
                               RAdd(ScoreTable[last.obs.name][last.candidates[k].name].similarity,
                                    DomainBoost))
              ELSE /\ last.candidates[k].match_type = "name_similarity"
                   /\ last.candidates[k].confidence =
                          ScoreTable[last.obs.name][last.candidates[k].name].similarity

(***************************************************************************)
(* Properties of the merge (SpecMerge)                                      *)
(***************************************************************************)
\* the ids of a merge list
IdsOf(merge_ids) == {merge_ids[k] : k \in 1..Len(merge_ids)}

\* this step is a merge that returned True
MergeSucceeds == last'.kind = "merge" /\ last'.ok

\* C3: after a successful merge(K, [M1..Mn]) with K not in the list no company
\* has an id of the list, every event that an Mi owned is owned by K, and
\* every event that K owned is still owned by K.
C3_Repointing ==
    [][MergeSucceeds /\ last'.keep \notin IdsOf(last'.ids) =>
          /\ DOMAIN db'.companies \cap IdsOf(last'.ids) = {}
          /\ Len(db'.events) = Len(db.events)
          /\ \A e \in 1..Len(db.events) :
                db.events[e].company_id \in IdsOf(last'.ids) \cup {last'.keep}
                    => db'.events[e].company_id = last'.keep]_vars

\* C3 witness: a successful merge into a company not in the list gave an
\* event another owner
C3_EventMoved ==
    /\ last.kind = "merge"
    /\ last.ok
    /\ last.keep \notin IdsOf(last.ids)
    /\ last.keep \in DOMAIN db.companies
    /\ last.repointed

\* the least first_seen and the greatest last_seen of the rows ids of companies
MinFirstSeen(companies, ids) == SetMin({companies[i].first_seen : i \in ids})
MaxLastSeen(companies, ids) == SetMax({companies[i].last_seen : i \in ids})

\* C4: after a successful merge(K, [M1..Mn]) of existing companies, K's
\* first_seen is the least of the first_seen values and K's last_seen the
\* greatest of the last_seen values that K and the Mi had before the merge.
C4_DateAbsorption ==
    [][/\ MergeSucceeds
       /\ last'.keep \notin IdsOf(last'.ids)
       /\ IdsOf(last'.ids) \cup {last'.keep} \subseteq DOMAIN db.companies
       => /\ db'.companies[last'.keep].first_seen =
                 MinFirstSeen(db.companies, IdsOf(last'.ids) \cup {last'.keep})
          /\ db'.companies[last'.keep].last_seen =
                 MaxLastSeen(db.companies, IdsOf(last'.ids) \cup {last'.keep})]_vars

\* C5: a merge that fails in one of its statements returns False and leaves
\* the companies and the funding events as they were before the call.
C5_Atomic ==
    [][last'.kind = "merge" /\ ~last'.ok => db' = db]_vars

\* C5 witness: a merge failed after a statement of it had changed a row
C5_FailedMidway ==
    /\ last.kind = "merge"
    /\ ~last.ok
    /\ last.partial

\* C6: every funding event's company_id is the id of an existing company.
C6_Referential ==
    \A e \in 1..Len(db.events) : db.events[e].company_id \in DOMAIN db.companies

(***************************************************************************)
(* Properties of a run (SpecRun)                                            *)
(***************************************************************************)
\* C7: when a run failed with an exception while it processed an observation,
\* then once its connection is closed none of the company or funding event
\* writes of the run is committed, and the run is marked failed.
C7_NoPartialWrites ==
    run.outcome = "processing_error" /\ run.pc \in {"log", "notify"} =>
        /\ db = run.db0
        /\ run.status = "failed"

\* C8: a run whose connector raised writes one ingest_runs row with status
\* 'failed' and an error text that is not NULL, and commits no company and
\* no funding event.
C8_FailedFetch ==
    [][run.outcome = "connector_raised" /\ run.pc = "log" =>
          /\ db = run.db0
          /\ db' = run.db0
          /\ Len(ingest_runs') = Len(ingest_runs) + 1
          /\ SubSeq(ingest_runs', 1, Len(ingest_runs)) = ingest_runs
          /\ ingest_runs'[Len(ingest_runs')].status = "failed"
          /\ ingest_runs'[Len(ingest_runs')].errors # NULL]_vars

\* C8 witness: the row of a run whose connector raised has been written, and
\* the store held a company before that run
C8_ConnectorRaised ==
    /\ run.outcome = "connector_raised"
    /\ run.pc = "notify"
    /\ run.db0.companies # <<>>

\* C9: no step changes or removes a row of ingest_runs, and a run_one_source
\* that returns has appended exactly one row, whatever its outcome.
C9_Ledger ==
    [][/\ Len(ingest_runs') >= Len(ingest_runs)
       /\ SubSeq(ingest_runs', 1, Len(ingest_runs)) = ingest_runs
       /\ run'.pc # "idle" => Len(ingest_runs') <= run'.rows0 + 1
       /\ run.pc # "idle" /\ run'.pc = "idle" =>
             Len(ingest_runs') = run.rows0 + 1]_vars

\* C9 witness: two runs have returned, the first one failed while it
\* processed an observation and the second one succeeded
C9_TwoRuns ==
    /\ run.pc = "idle"
    /\ Len(ingest_runs) = 2
    /\ ingest_runs[1].status = "failed"
    /\ ingest_runs[1].records_fetched > 0
    /\ ingest_runs[2].status = "success"

\* this step is a successful merge with the arguments of the preview that
\* came just before it: a keep_id and distinct ids, all of existing companies
MergeAfterPreview ==
    /\ last.kind = "preview"
    /\ MergeSucceeds
    /\ last'.keep = last.keep
    /\ last'.ids = last.ids
    /\ last.keep \notin IdsOf(last.ids)
    /\ IdsOf(last.ids) \cup {last.keep} \subseteq DOMAIN db.companies
    /\ Cardinality(IdsOf(last.ids)) = Len(last.ids)

\* C16: the preview's events_to_transfer is the number of events whose owner
\* the merge changes, and its total_events_after_merge is the number of
\* events that keep_id owns after the merge.
C16_PreviewAgrees ==
    [][MergeAfterPreview =>
          /\ last.events_to_transfer =
                 Cardinality({e \in 1..Len(db.events) :
                                 db'.events[e].company_id # db.events[e].company_id})
          /\ last.total_events_after_merge =
                 Cardinality({e \in 1..Len(db'.events) :
                                 db'.events[e].company_id = last.keep})]_vars

\* C17: a preview changes no row of the store, whatever its arguments.
C17_PreviewPure ==
    [][last'.kind = "preview" =>
          /\ db' = db
          /\ ingest_runs' = ingest_runs]_vars

\* C17 witness: a preview was computed for a keep_id without a row and a
\* merge list that names a company with an event
C17_PreviewOfMissing ==
    /\ last.kind = "preview"
    /\ last.keep \notin DOMAIN db.companies
    /\ \E e \in 1..Len(db.events) : db.events[e].company_id \in IdsOf(last.ids)
    /\ IdsOf(last.ids) \subseteq DOMAIN db.companies

\* C19: when the notification of a failed run is attempted, the run's row
\* with status 'failed' and the original error text is already written, and
\* whatever the notification does, run_one_source returns without raising
\* and that row is unchanged.
C19_NotificationNeverMasks ==
    [][run.pc = "notify" /\ run'.pc = "idle" =>
          /\ Len(ingest_runs) > 0
          /\ ingest_runs[Len(ingest_runs)].status = "failed"
          /\ ingest_runs[Len(ingest_runs)].errors = run.errors
          /\ ingest_runs' = ingest_runs
          /\ run'.exit = "returned"]_vars

\* C18: once the scope of the run's connection has been left, by normal
\* completion, by an exception raised inside it or by an exception raised by
\* the closing commit, the connection is closed.
C18_Released ==
    run.pc \in {"log", "notify"} => ~run.conn.open

(***************************************************************************)
(* Properties of fetch (SpecFetch)                                          *)
(***************************************************************************)
\* C20: while every request of a group has succeeded, fetch has sent at most
\* MAX_PAGES requests for the group, the last of them for the page whose
\* number is the number of requests sent, and it sends no request after a
\* response whose hasNext is false.
C20_PaginationStops ==
    fetch.failures = 0 =>
        /\ fetch.requests <= fetch.MAX_PAGES
        /\ fetch.requested_page = fetch.requests
        /\ (fetch.bound /\ ~fetch.data.hasNext) =>
               ~ENABLED (\E ok \in BOOLEAN, response \in Responses : Request(ok, response))

\* C21: while every request has succeeded, results holds one event for
\* every record with a company name of the pages received so far, and after
\* a page whose hasNext is false fetch has returned them.
C21_FetchResult ==
    (fetch.failures = 0 /\ fetch.bound) =>
        /\ fetch.results = fetch.received
        /\ ~fetch.data.hasNext => fetch.pc = "returned"

(***************************************************************************)
(* Properties of concurrent connections (SpecRace)                          *)
(***************************************************************************)
\* this step is the commit that ends the merge of connection p
MergeCommits(p) ==
    /\ sessions[p].pc = "merge"
    /\ sessions[p].k = Len(sessions[p].ids) + 2
    /\ sessions'[p].pc = "idle"

\* rows i and j of companies stand for one company
SameCompany(companies, i, j) ==
    /\ normalize_company_name(companies[i].name) =
           normalize_company_name(companies[j].name)
    /\ companies[i].country = companies[j].country

\* C14: two connections can each insert a row for the same new company; no
\* step other than a merge removes a company row, and a merge of two rows of
\* one company leaves the kept row alone, owning every event the two owned.
C14_RaceReconciled ==
    [][/\ (\A p \in Procs : ~MergeCommits(p)) =>
              DOMAIN db.companies \subseteq DOMAIN db'.companies
       /\ \A p \in Procs :
              /\ MergeCommits(p)
              /\ {sessions[p].keep} \cup IdsOf(sessions[p].ids) \subseteq DOMAIN db.companies
              /\ sessions[p].keep \notin IdsOf(sessions[p].ids)
              /\ SameCompany(db.companies, sessions[p].keep, sessions[p].ids[1])
              => /\ DOMAIN db'.companies \cap
                        ({sessions[p].keep} \cup IdsOf(sessions[p].ids)) = {sessions[p].keep}
                 /\ Len(db'.events) = Len(db.events)
                 /\ \A e \in 1..Len(db.events) :
                        db.events[e].company_id \in
                            {sessions[p].keep} \cup IdsOf(sessions[p].ids)
                        => db'.events[e].company_id = sessions[p].keep]_vars

\* C14 witness: two connections have each looked the same company up, found
\* no candidate, inserted a row and committed; each row owns an event
C14_BothInserted ==
    \E p \in Procs, q \in Procs :
        /\ sessions[p].pc = "idle" /\ ~sessions[p].locked /\ sessions[p].created
        /\ sessions[q].pc = "idle" /\ ~sessions[q].locked /\ sessions[q].created
        /\ sessions[p].id # sessions[q].id
        /\ {sessions[p].id, sessions[q].id} \subseteq DOMAIN db.companies
        /\ SameCompany(db.companies, sessions[p].id, sessions[q].id)
        /\ \E e \in 1..Len(db.events) : db.events[e].company_id = sessions[p].id
        /\ \E e \in 1..Len(db.events) : db.events[e].company_id = sessions[q].id

\* C15: from the first statement of a merge to its commit no write of
\* another connection reaches the committed store, and the commit makes the
\* re-points, the date update and the delete visible in one step.
C15_MergeIsolated ==
    [][\A p \in Procs :
          sessions[p].pc = "merge" /\ sessions[p].k > 0 =>
              \/ db' = db
              \/ /\ MergeCommits(p)
                 /\ db' = merge_statements(db, sessions[p].keep, sessions[p].ids,
                                           Len(sessions[p].ids) + 2)]_vars

\* C15 witness: a merge has executed a statement and has not committed,
\* while another connection has decided to update a company of the merge list
C15_WriterWaits ==
    \E p \in Procs, q \in Procs :
        /\ sessions[p].pc = "merge"
        /\ sessions[p].k > 0
        /\ sessions[p].k < Len(sessions[p].ids) + 2
        /\ sessions[q].pc = "decided"
        /\ sessions[q].target \in IdsOf(sessions[p].ids)

\* C29: the id that upsert_company returns to a connection is the id of a
\* company row that the connection sees, also when another connection has
\* committed a merge between the candidate lookup and the metadata update;
\* the event that the connection then inserts is owned by a row it sees.
C29_ReturnedIdLive ==
    \A p \in Procs :
        /\ sessions[p].pc = "event" =>
               sessions[p].id \in DOMAIN view(sessions, p).companies
        /\ sessions[p].pc = "idle" /\ sessions[p].locked /\ sessions[p].id # 0 =>
               sessions[p].work.events[Len(sessions[p].work.events)].company_id
                   \in DOMAIN sessions[p].work.companies

\* C30: a step of the run's loop that does not raise takes one fetched event.
\* If its company name strips to '' the connection's store is as before;
\* otherwise the companies are as one upsert_company of the stripped name
\* leaves them and exactly one event is appended, owned by the id that
\* call returned.  Nothing removes or merges events: while the loop runs the
\* run has added as many events as it has counted observations.
C30_OneEventPerObservation ==
    /\ [](run.pc = "loop" =>
             Len(run.conn.work.events) = Len(run.db0.events) + run.normalized)
    /\ [][run.pc = "loop" /\ run'.pc = "loop" /\ run'.todo < run.todo =>
             IF str_strip(run'.company_name) = <<>>
               THEN /\ run'.conn.work = run.conn.work
                    /\ run'.normalized = run.normalized
               ELSE /\ run'.normalized = run.normalized + 1
                    /\ Len(run'.conn.work.events) = Len(run.conn.work.events) + 1
                    /\ SubSeq(run'.conn.work.events, 1, Len(run.conn.work.events))
                           = run.conn.work.events
                    /\ \E e \in {run'.conn.work.events[Len(run'.conn.work.events)]} :
                       \E r \in {upsert_company(run.conn.work,
                                                str_strip(run'.company_name), "US",
                                                e.date, NULL, <<>>)} :
                           /\ e.company_id = r.id
                           /\ e.company_id \in DOMAIN run'.conn.work.companies
                           /\ run'.conn.work.companies = r.store.companies]_vars

\* C30 witness: a run has skipped an event without a name and has taken the
\* same observation twice: one company, two equal events that it owns
C30_SameObservationTwice ==
    /\ run.pc = "loop"
    /\ run.normalized = 2
    /\ run.fetched - run.todo > run.normalized
    /\ run.db0 = EmptyStore
    /\ Cardinality(DOMAIN run.conn.work.companies) = 1
    /\ Len(run.conn.work.events) = 2
    /\ run.conn.work.events[1] = run.conn.work.events[2]
    /\ run.conn.work.events[1].company_id \in DOMAIN run.conn.work.companies

\* C31: a call of upsert_company deletes no company row, changes or adds no
\* row but the one whose id it returns, and leaves the events as they are.
\* Only a merge gives an existing event another owner, and a merge changes
\* nothing else of an event and removes none.
C31_ResolutionFrame ==
    [][/\ last'.kind = "upsert" =>
             /\ DOMAIN db.companies \subseteq DOMAIN db'.companies
             /\ \A i \in DOMAIN db'.companies :
                    i \notin DOMAIN db.companies \/ db'.companies[i] # db.companies[i]
                    => i = last'.id
             /\ db'.events = db.events
       /\ (\E e \in 1..Len(db.events) :
               e > Len(db'.events) \/ db'.events[e].company_id # db.events[e].company_id)
             => last'.kind = "merge"
       /\ last'.kind = "merge" =>
             /\ Len(db'.events) = Len(db.events)
             /\ \A e \in 1..Len(db.events) :
                    [db'.events[e] EXCEPT !.company_id = db.events[e].company_id]
                        = db.events[e]]_vars

\* C31 witness: a merge has given an event of a dated observation another
\* owner, after a resolution updated the company that now owns it
C31_Reowned ==
    /\ last.kind = "merge" /\ last.ok /\ last.repointed
    /\ last.keep \in DOMAIN db.companies
    /\ db.companies[last.keep].routed_min < db.companies[last.keep].routed_max
    /\ \E e \in 1..Len(db.events) :
          db.events[e].company_id = last.keep /\ db.events[e].date \in Dates

\* C32: in the store that a run writes, every first_seen and last_seen of a
\* company and every date of an event is NULL or the date of an observation,
\* never another text.
C32_StoredDates ==
    /\ \A i \in DOMAIN run.conn.work.companies :
          /\ run.conn.work.companies[i].first_seen \in Dates \cup {NullDate}
          /\ run.conn.work.companies[i].last_seen \in Dates \cup {NullDate}
    /\ \A e \in 1..Len(run.conn.work.events) :
          run.conn.work.events[e].date \in Dates \cup {NullDate}

\* C33: a call of upsert_company that resolves to an existing company whose
\* country is not NULL leaves that country as it is.
C33_CountryStable ==
    [][last'.kind = "upsert" /\ ~last'.created /\ last'.id \in DOMAIN db.companies
       /\ db.companies[last'.id].country # NULL
       => db'.companies[last'.id].country = db.companies[last'.id].country]_vars

\* C34: a merge on a connection that holds uncommitted writes does not fail
\* when none of its statements fails, and whether it succeeds or fails the
\* connection still holds those writes: a failed merge leaves the store as
\* the connection saw it before the merge.
C34_PendingKept ==
    last.kind = "merge_on" =>
        /\ last.fault = 0 => last.ok
        /\ ~last.ok => last.conn.work = last.pending

\* C35: a call of _post_json sends at most max(1, RETRIES) requests.  It
\* returns at the first request that succeeds; it has slept once after each
\* failed request but the last one allowed, BACKOFF * 2^(attempt-1) after
\* failed attempt number attempt; and when the last allowed request fails
\* it raises the exception of that request.
C35_BoundedRetry ==
    fetch.pc \in {"post", "post_returned", "post_raised"} =>
        /\ fetch.requests <= max_attempts(fetch.retries)
        /\ fetch.pc = "post" =>
              /\ fetch.requests < max_attempts(fetch.retries)
              /\ Len(fetch.caught) = fetch.requests
              /\ Len(fetch.slept) = fetch.requests
        /\ fetch.pc = "post_returned" =>
              /\ Len(fetch.caught) = fetch.requests - 1
              /\ Len(fetch.slept) = fetch.requests - 1
        /\ fetch.pc = "post_raised" =>
              /\ fetch.requests = max_attempts(fetch.retries)
              /\ Len(fetch.caught) = fetch.requests
              /\ Len(fetch.slept) = fetch.requests - 1
              /\ fetch.last_err = fetch.caught[Len(fetch.caught)]
        /\ \A i \in 1..Len(fetch.slept) : fetch.slept[i] = pow2(i - 1)

\* C35 witness: with RETRIES = 3 the third request failed with another
\* exception than the first, after two sleeps
C35_LastErrorRaised ==
    /\ fetch.pc = "post_raised"
    /\ fetch.retries = 3
    /\ fetch.requests = 3
    /\ fetch.slept = <<1, 2>>
    /\ fetch.caught[1] # fetch.caught[3]

\* C36: the row that a run appends to ingest_runs has records_normalized
\* equal to the number of events the run added to the store and at most
\* records_fetched; in every row the status is 'success' when errors is
\* NULL and 'failed' when it is not.
C36_RunCounters ==
    /\ [](\A i \in 1..Len(ingest_runs) :
             /\ ingest_runs[i].records_normalized <= ingest_runs[i].records_fetched
             /\ ingest_runs[i].status \in {"success", "failed"}
             /\ ingest_runs[i].status = "success" <=> ingest_runs[i].errors = NULL)
    /\ [][Len(ingest_runs') = Len(ingest_runs) + 1 =>
             ingest_runs'[Len(ingest_runs')].records_normalized
                 = Len(db.events) - Len(run.db0.events)]_vars

\* C36 witness: a run that failed at its second observation is in the ledger
C36_FailedAfterOne ==
    \E i \in 1..Len(ingest_runs) :
        /\ ingest_runs[i].status = "failed"
        /\ ingest_runs[i].records_normalized = 1
        /\ ingest_runs[i].records_fetched = 3
        /\ Len(db.events) >= 1

\* C37: run_sources takes the sources in list order and each adds one row
\* to ingest_runs, in that order; no exception leaves run_sources while a
\* source of the list has not been run.
C37_SourcesIsolated ==
    last.kind = "run_sources" =>
        /\ \A i \in 1..Len(ingest_runs) : ingest_runs[i].source = last.sources[i]
        /\ run.pc = "idle" =>
              /\ Len(ingest_runs) = last.next - 1
              /\ run.exit = "raised" => last.next > Len(last.sources)

\* C38: the confidence of every candidate that find_duplicate_candidates
\* returns is at least the similarity of its name to the query name.
C38_BoostNeverLowers ==
    last.kind = "find" =>
        \A k \in 1..Len(last.candidates) :
            RLe(ScoreTable[last.obs.name][last.candidates[k].name].similarity,
                last.candidates[k].confidence)

\* C39: when every request returns, fetch_sbir_gov_awards comes to its
\* return statement, whatever the server answers.
C39_SbirTerminates == (fetch.pc = "sbir_while") ~> (fetch.pc = "sbir_returned")

====
